---------------------------- MODULE Spec2Model ----------------------------
\* A model of the usccb-parish-extraction core: text utilities, the parish
\* name validator, de-duplication, coordinate parsing, the site classifier,
\* the four extraction strategies, strategy dispatch,
\* ParishExtractionPipeline.extract_parishes_from_directory,
\* run_full_extraction and process_single_diocese, Parish.to_dict,
\* save_parishes_to_database and analyze_with_ai.
\*
\* Python str values are TLA+ strings; TLC evaluates Len, \o and SubSeq on
\* them, so substring tests, lower(), strip() and split() are computed
\* character by character as the Python built-ins compute them.
EXTENDS Integers, Sequences, FiniteSets, TLC

VARIABLES
    \* validate_parish_name applied to one input
    vName, vResult, vpc,
    \* remove_duplicates applied to one list, then to its own output
    dIn, dOut, dOut2, dpc,
    \* extract_coordinates applied to one element
    cElem, cResult, cpc,
    \* detect_site_type applied to one document and URL
    kSoup, kUrl, kType, kpc,
    \* one strategy's extract applied to one document
    xSoup, xStrategy, xParishes, xpc,
    \* get_extractor called a number of times: the tag of the last call, the
    \* object it returned and the objects constructed so far
    gTag, gExtractor, gHeap,
    \* extract_parishes_from_directory: its position, the browser session,
    \* the loaded document, the detected type, the exception being handled,
    \* the returned outcome and the exception that left the method
    ppc, pUrl, pDriver, pSoup, pSiteType, pExc, pResult, pRaised,
    \* Parish.to_dict applied to one record
    tParish, tDict, tpc,
    \* save_parishes_to_database applied to one list: the client of the
    \* record sink (or None), the answer of the sink to each insert, and
    \* what the call returned and sent
    sParishes, sSupabase, sOutcomes, sResult, spc,
    \* run_full_extraction: the Dioceses table, the dioceses of the run, the
    \* index of the one being processed, the position, the locals of
    \* process_single_diocese (directory URL, result, exception caught), the
    \* results so far, the status updates issued, the log of begin, end and
    \* sleep events, the rows the record sink stored, and the calls of
    \* save_parishes_to_database
    rTable, rDioceses, rI, rpc, rDirectory, rResult, rExc, rResults, rStatus, rLog,
    rSink, rSaves,
    \* one strategy's extract applied to a document in which processing one
    \* candidate raises: the candidate, and whether extract raised or what it
    \* returned
    fSoup, fStrategy, fFaulty, fOutcome, fpc,
    \* analyze_with_ai: whether the global configuration is set, its
    \* genai_enabled, the query type, the answer of the language model, the
    \* attempts made, the returned value or the exception
    aConfigSet, aEnabled, aQuery, aReply, aAttempts, aResult, apc,
    \* CardLayoutExtractor.extract applied to one card: the parts the card is
    \* built from, the returned list
    lParts, lParishes, lpc,
    \* ParishFinderExtractor.extract applied to a list of finder items: the
    \* parts the items are built from, the returned list
    iParts, iParishes, ipc,
    \* TableExtractor.extract applied to one table: the first-cell texts of
    \* its rows, the tag of the cells of its first row, the returned list
    hNames, hTag, hParishes, hpc,
    \* GenericExtractor.extract applied to a document of container groups: the
    \* groups, the returned list
    qGroups, qParishes, qpc,
    \* the address tests of the Generic and of the Table strategy applied to
    \* one text line: the line, the address Generic returns, Table's verdict
    wLine, wGeneric, wTable, wpc,
    \* _extract_city_from_card applied to one card: whether the card has a
    \* card-body block, the lines of the block's text, the returned city
    yBody, yLines, yCity, ypc,
    \* _evaluate_candidates_with_ai: what scoring each candidate gives, the
    \* confidence threshold, the returned URL
    eScoring, eThreshold, eBest, epc,
    \* browser sessions during run_full_extraction: the position, the diocese
    \* and the number of dioceses, the sessions that are open, the number of
    \* sessions started, the session the current method holds as driver, the
    \* outcome of the current method, the sessions started by a setup_driver
    \* call that raised
    bpc, bI, bN, bOpen, bOpened, bDriver, bOutcome, bLeft

varsValidate == <<vName, vResult, vpc>>
varsDedup == <<dIn, dOut, dOut2, dpc>>
varsCoords == <<cElem, cResult, cpc>>
varsClassify == <<kSoup, kUrl, kType, kpc>>
varsExtract == <<xSoup, xStrategy, xParishes, xpc>>
varsDispatch == <<gTag, gExtractor, gHeap>>
varsPipeline == <<ppc, pUrl, pDriver, pSoup, pSiteType, pExc, pResult, pRaised>>
varsToDict == <<tParish, tDict, tpc>>
varsSave == <<sParishes, sSupabase, sOutcomes, sResult, spc>>
varsFault == <<fSoup, fStrategy, fFaulty, fOutcome, fpc>>
varsAi == <<aConfigSet, aEnabled, aQuery, aReply, aAttempts, aResult, apc>>
varsCard == <<lParts, lParishes, lpc>>
varsItems == <<iParts, iParishes, ipc>>
varsRows == <<hNames, hTag, hParishes, hpc>>
varsSelect == <<qGroups, qParishes, qpc>>
varsAddress == <<wLine, wGeneric, wTable, wpc>>
varsCity == <<yBody, yLines, yCity, ypc>>
varsEvaluate == <<eScoring, eThreshold, eBest, epc>>
varsBrowser == <<bpc, bI, bN, bOpen, bOpened, bDriver, bOutcome, bLeft>>
varsRun ==
    <<rTable, rDioceses, rI, rpc, rDirectory, rResult, rExc, rResults, rStatus, rLog,
      rSink, rSaves>>
vars ==
    <<varsValidate, varsDedup, varsCoords, varsClassify, varsExtract,
      varsDispatch, varsPipeline, varsToDict, varsSave, varsRun, varsFault,
      varsAi, varsCard, varsItems, varsRows, varsSelect, varsAddress,
      varsCity, varsEvaluate, varsBrowser>>

\* What the actions of one group leave alone: the variables of the others.
exceptValidate ==
    <<varsDedup, varsCoords, varsClassify, varsExtract, varsDispatch,
      varsPipeline, varsToDict, varsSave, varsRun, varsFault, varsAi,
      varsCard, varsItems, varsRows, varsSelect, varsAddress, varsCity,
      varsEvaluate, varsBrowser>>
exceptDedup ==
    <<varsValidate, varsCoords, varsClassify, varsExtract, varsDispatch,
      varsPipeline, varsToDict, varsSave, varsRun, varsFault, varsAi,
      varsCard, varsItems, varsRows, varsSelect, varsAddress, varsCity,
      varsEvaluate, varsBrowser>>
exceptCoords ==
    <<varsValidate, varsDedup, varsClassify, varsExtract, varsDispatch,
      varsPipeline, varsToDict, varsSave, varsRun, varsFault, varsAi,
      varsCard, varsItems, varsRows, varsSelect, varsAddress, varsCity,
      varsEvaluate, varsBrowser>>
exceptClassify ==
    <<varsValidate, varsDedup, varsCoords, varsExtract, varsDispatch,
      varsPipeline, varsToDict, varsSave, varsRun, varsFault, varsAi,
      varsCard, varsItems, varsRows, varsSelect, varsAddress, varsCity,
      varsEvaluate, varsBrowser>>
exceptExtract ==
    <<varsValidate, varsDedup, varsCoords, varsClassify, varsDispatch,
      varsPipeline, varsToDict, varsSave, varsRun, varsFault, varsAi,
      varsCard, varsItems, varsRows, varsSelect, varsAddress, varsCity,
      varsEvaluate, varsBrowser>>
exceptDispatch ==
    <<varsValidate, varsDedup, varsCoords, varsClassify, varsExtract,
      varsPipeline, varsToDict, varsSave, varsRun, varsFault, varsAi,
      varsCard, varsItems, varsRows, varsSelect, varsAddress, varsCity,
      varsEvaluate, varsBrowser>>
exceptPipeline ==
    <<varsValidate, varsDedup, varsCoords, varsClassify, varsExtract,
      varsDispatch, varsToDict, varsSave, varsRun, varsFault, varsAi,
      varsCard, varsItems, varsRows, varsSelect, varsAddress, varsCity,
      varsEvaluate, varsBrowser>>
exceptToDict ==
    <<varsValidate, varsDedup, varsCoords, varsClassify, varsExtract,
      varsDispatch, varsPipeline, varsSave, varsRun, varsFault, varsAi,
      varsCard, varsItems, varsRows, varsSelect, varsAddress, varsCity,
      varsEvaluate, varsBrowser>>
exceptSave ==
    <<varsValidate, varsDedup, varsCoords, varsClassify, varsExtract,
      varsDispatch, varsPipeline, varsToDict, varsRun, varsFault, varsAi,
      varsCard, varsItems, varsRows, varsSelect, varsAddress, varsCity,
      varsEvaluate, varsBrowser>>
exceptRun ==
    <<varsValidate, varsDedup, varsCoords, varsClassify, varsExtract,
      varsDispatch, varsPipeline, varsToDict, varsSave, varsFault, varsAi,
      varsCard, varsItems, varsRows, varsSelect, varsAddress, varsCity,
      varsEvaluate, varsBrowser>>
exceptFault ==
    <<varsValidate, varsDedup, varsCoords, varsClassify, varsExtract,
      varsDispatch, varsPipeline, varsToDict, varsSave, varsRun, varsAi,
      varsCard, varsItems, varsRows, varsSelect, varsAddress, varsCity,
      varsEvaluate, varsBrowser>>
exceptAi ==
    <<varsValidate, varsDedup, varsCoords, varsClassify, varsExtract,
      varsDispatch, varsPipeline, varsToDict, varsSave, varsRun, varsFault,
      varsCard, varsItems, varsRows, varsSelect, varsAddress, varsCity,
      varsEvaluate, varsBrowser>>
exceptCard ==
    <<varsValidate, varsDedup, varsCoords, varsClassify, varsExtract,
      varsDispatch, varsPipeline, varsToDict, varsSave, varsRun, varsFault,
      varsAi, varsItems, varsRows, varsSelect, varsAddress, varsCity,
      varsEvaluate, varsBrowser>>
exceptItems ==
    <<varsValidate, varsDedup, varsCoords, varsClassify, varsExtract,
      varsDispatch, varsPipeline, varsToDict, varsSave, varsRun, varsFault,
      varsAi, varsCard, varsRows, varsSelect, varsAddress, varsCity,
      varsEvaluate, varsBrowser>>
exceptRows ==
    <<varsValidate, varsDedup, varsCoords, varsClassify, varsExtract,
      varsDispatch, varsPipeline, varsToDict, varsSave, varsRun, varsFault,
      varsAi, varsCard, varsItems, varsSelect, varsAddress, varsCity,
      varsEvaluate, varsBrowser>>
exceptSelect ==
    <<varsValidate, varsDedup, varsCoords, varsClassify, varsExtract,
      varsDispatch, varsPipeline, varsToDict, varsSave, varsRun, varsFault,
      varsAi, varsCard, varsItems, varsRows, varsAddress, varsCity,
      varsEvaluate, varsBrowser>>
exceptAddress ==
    <<varsValidate, varsDedup, varsCoords, varsClassify, varsExtract,
      varsDispatch, varsPipeline, varsToDict, varsSave, varsRun, varsFault,
      varsAi, varsCard, varsItems, varsRows, varsSelect, varsCity,
      varsEvaluate, varsBrowser>>
exceptCity ==
    <<varsValidate, varsDedup, varsCoords, varsClassify, varsExtract,
      varsDispatch, varsPipeline, varsToDict, varsSave, varsRun, varsFault,
      varsAi, varsCard, varsItems, varsRows, varsSelect, varsAddress,
      varsEvaluate, varsBrowser>>
exceptEvaluate ==
    <<varsValidate, varsDedup, varsCoords, varsClassify, varsExtract,
      varsDispatch, varsPipeline, varsToDict, varsSave, varsRun, varsFault,
      varsAi, varsCard, varsItems, varsRows, varsSelect, varsAddress,
      varsCity, varsBrowser>>
exceptBrowser ==
    <<varsValidate, varsDedup, varsCoords, varsClassify, varsExtract,
      varsDispatch, varsPipeline, varsToDict, varsSave, varsRun, varsFault,
      varsAi, varsCard, varsItems, varsRows, varsSelect, varsAddress,
      varsCity, varsEvaluate>>

\* ------------------------------------------------------------------ bounds
\* Number of fragments a candidate name is assembled from.
MaxNameParts == 2
\* Length of the candidate list handed to remove_duplicates.
MaxParishes == 3
\* Number of top-level nodes of a document.
MaxNodes == 2
\* Number of calls of get_extractor in one run.
MaxCalls == 3
\* Length of the list handed to save_parishes_to_database.
MaxRecords == 21
\* Number of rows of the Dioceses table.
MaxDioceses == 2
\* rows of a table
MaxRows == 3
\* lines of the text of a card-body block
MaxLines == 3
\* candidate links of a page
MaxCandidates == 6

\* ------------------------------------------------------- Python built-ins
\* Python's None. The text is outside every string the model builds.
None == "~None~"

\* "not x" for an Optional[str]: None and "" are falsy.
Falsy(x) == x = None \/ x = ""

Whitespace == {" ", "\n", "\t"}

\* "t in s" for two str values.
Contains(s, t) == \E i \in 1..(Len(s) - Len(t) + 1) : SubSeq(s, i, i + Len(t) - 1) = t

\* s.startswith(t)
StartsWith(s, t) == Len(s) >= Len(t) /\ SubSeq(s, 1, Len(t)) = t

UpperCase == {"A","B","C","D","E","F","G","H","I","J","K","L","M",
              "N","O","P","Q","R","S","T","U","V","W","X","Y","Z"}

LowerOf == [c \in UpperCase |->
    CASE c = "A" -> "a" [] c = "B" -> "b" [] c = "C" -> "c" [] c = "D" -> "d"
      [] c = "E" -> "e" [] c = "F" -> "f" [] c = "G" -> "g" [] c = "H" -> "h"
      [] c = "I" -> "i" [] c = "J" -> "j" [] c = "K" -> "k" [] c = "L" -> "l"
      [] c = "M" -> "m" [] c = "N" -> "n" [] c = "O" -> "o" [] c = "P" -> "p"
      [] c = "Q" -> "q" [] c = "R" -> "r" [] c = "S" -> "s" [] c = "T" -> "t"
      [] c = "U" -> "u" [] c = "V" -> "v" [] c = "W" -> "w" [] c = "X" -> "x"
      [] c = "Y" -> "y" [] c = "Z" -> "z"]

\* s.lower(), computed by halving so that the recursion stays shallow.
RECURSIVE lower(_)
lower(s) ==
    IF Len(s) = 0 THEN ""
    ELSE IF Len(s) = 1 THEN (IF s \in UpperCase THEN LowerOf[s] ELSE s)
    ELSE LET h == Len(s) \div 2
         IN lower(SubSeq(s, 1, h)) \o lower(SubSeq(s, h + 1, Len(s)))

RECURSIVE lstrip(_)
lstrip(s) ==
    IF Len(s) > 0 /\ SubSeq(s, 1, 1) \in Whitespace
    THEN lstrip(SubSeq(s, 2, Len(s)))
    ELSE s

RECURSIVE rstrip(_)
rstrip(s) ==
    IF Len(s) > 0 /\ SubSeq(s, Len(s), Len(s)) \in Whitespace
    THEN rstrip(SubSeq(s, 1, Len(s) - 1))
    ELSE s

\* s.strip()
strip(s) == rstrip(lstrip(s))

\* any(pred(x) for x in seq), for a sequence of terms tested against one text
AnyTermIn(terms, text) == \E i \in 1..Len(terms) : Contains(text, terms[i])

\* ------------------------------------------------- BaseExtractor (base.py)
skip_terms == <<"contact", "office", "directory", "finder", "search", "filter",
                "map", "diocese", "bishop", "center", "no parish registration">>

parish_indicators == <<"parish", "church", "st.", "saint", "our lady", "holy",
                       "cathedral", "chapel", "basilica", "shrine">>

\* A validator that tests the indicators before the skip-terms (a plausible
\* slip in the order of the two tests).
validate_parish_name_IndicatorFirst(name) ==
    IF Falsy(name) \/ Len(strip(name)) < 3 THEN FALSE
    ELSE IF AnyTermIn(parish_indicators, lower(name)) THEN TRUE
    ELSE FALSE

\* A validator that looks for the skip-terms in the name as written, not
\* in its lower-cased form.
validate_parish_name_CaseSensitiveSkip(name) ==
    IF Falsy(name) \/ Len(strip(name)) < 3 THEN FALSE
    ELSE IF AnyTermIn(skip_terms, name) THEN FALSE
    ELSE AnyTermIn(parish_indicators, lower(name))

validate_parish_name(name) ==
    IF Falsy(name) \/ Len(strip(name)) < 3 THEN FALSE
    ELSE LET name_lower == lower(name)
         IN IF AnyTermIn(skip_terms, name_lower) THEN FALSE
            ELSE AnyTermIn(parish_indicators, name_lower)

\* ------------------------------------------------------------ input names
NameFragments == {"St. ", "Mary", " Parish", "Parish ", "Directory", "Contact",
                  "Hi", " ", "HOLY", "Map", "le Chapel", "."}

RECURSIVE NamesOf(_)
NamesOf(n) ==
    IF n = 0 THEN {""}
    ELSE LET shorter == NamesOf(n - 1)
         IN shorter \cup {a \o f : a \in shorter, f \in NameFragments}

Names == NamesOf(MaxNameParts) \cup {None}

\* ------------------------------------------- validate_parish_name, applied
IdleValidate == vName = None /\ vResult = FALSE /\ vpc = "idle"

InitValidate ==
    /\ vName \in Names
    /\ vResult = FALSE
    /\ vpc = "call"

Validate ==
    /\ vpc = "call"
    /\ vResult' = validate_parish_name(vName)
    /\ vpc' = "return"
    /\ UNCHANGED <<vName, exceptValidate>>

\* ---------------------------------------------------------------- Parish
\* models.Parish; confidence is held in hundredths (0.9 is 90).
Parish(name, city, address, phone, website, latitude, longitude, confidence, method) ==
    [name |-> name, city |-> city, address |-> address, phone |-> phone,
     website |-> website, latitude |-> latitude, longitude |-> longitude,
     confidence |-> confidence, extraction_method |-> method]

\* ------------------------------------------------------ remove_duplicates
\* The loop of remove_duplicates from position i on, with the list built so
\* far and the set of name keys seen so far.
RECURSIVE dedup_loop(_, _, _, _)
dedup_loop(parishes, i, unique_parishes, seen_names) ==
    IF i > Len(parishes) THEN unique_parishes
    ELSE LET parish == parishes[i]
             name_key == strip(lower(parish.name))
         IN IF name_key \notin seen_names /\ validate_parish_name(parish.name)
            THEN dedup_loop(parishes, i + 1, Append(unique_parishes, parish),
                            seen_names \cup {name_key})
            ELSE dedup_loop(parishes, i + 1, unique_parishes, seen_names)

\* A remove_duplicates that lets a later duplicate replace the kept record.
RECURSIVE dedup_loop_LastWins(_, _, _, _)
dedup_loop_LastWins(parishes, i, unique_parishes, seen_names) ==
    IF i > Len(parishes) THEN unique_parishes
    ELSE LET parish == parishes[i]
             name_key == strip(lower(parish.name))
             others == SelectSeq(unique_parishes,
                                 LAMBDA q : strip(lower(q.name)) # name_key)
         IN IF validate_parish_name(parish.name)
            THEN dedup_loop_LastWins(parishes, i + 1, Append(others, parish),
                                     seen_names \cup {name_key})
            ELSE dedup_loop_LastWins(parishes, i + 1, unique_parishes, seen_names)

remove_duplicates_LastWins(parishes) == dedup_loop_LastWins(parishes, 1, <<>>, {})

\* A remove_duplicates that builds its result by inserting at the front.
RECURSIVE dedup_loop_Prepend(_, _, _, _)
dedup_loop_Prepend(parishes, i, unique_parishes, seen_names) ==
    IF i > Len(parishes) THEN unique_parishes
    ELSE LET parish == parishes[i]
             name_key == strip(lower(parish.name))
         IN IF name_key \notin seen_names /\ validate_parish_name(parish.name)
            THEN dedup_loop_Prepend(parishes, i + 1, <<parish>> \o unique_parishes,
                                    seen_names \cup {name_key})
            ELSE dedup_loop_Prepend(parishes, i + 1, unique_parishes, seen_names)

remove_duplicates_Prepend(parishes) == dedup_loop_Prepend(parishes, 1, <<>>, {})

remove_duplicates(parishes) == dedup_loop(parishes, 1, <<>>, {})

\* Candidate records: a few names that collide after lower().strip(), one
\* that fails validation, and two cities so that records with one name differ.
DedupNames == {"St. Mary Parish", "ST. MARY PARISH ", "Contact Office", " Holy Family Church"}

DedupParishes ==
    {Parish(n, c, None, None, None, None, None, 90, "parish_finder") :
        n \in DedupNames, c \in {None, "Cleveland"}}

RECURSIVE SeqsUpTo(_, _)
SeqsUpTo(S, n) ==
    IF n = 0 THEN {<<>>}
    ELSE LET shorter == SeqsUpTo(S, n - 1)
         IN shorter \cup {Append(q, x) : q \in shorter, x \in S}

IdleDedup == dIn = <<>> /\ dOut = <<>> /\ dOut2 = <<>> /\ dpc = "idle"

InitDedup ==
    /\ dIn \in SeqsUpTo(DedupParishes, MaxParishes)
    /\ dOut = <<>>
    /\ dOut2 = <<>>
    /\ dpc = "call"

\* unique = remove_duplicates(parishes)
Dedup ==
    /\ dpc = "call"
    /\ dOut' = remove_duplicates(dIn)
    /\ dpc' = "once"
    /\ UNCHANGED <<dIn, dOut2, exceptDedup>>

\* remove_duplicates applied to its own output
DedupAgain ==
    /\ dpc = "once"
    /\ dOut2' = remove_duplicates(dOut)
    /\ dpc' = "twice"
    /\ UNCHANGED <<dIn, dOut, exceptDedup>>

\* ------------------------------------------------------------ documents
\* A node of a parsed document (a bs4 Tag or a text node). An element has a
\* tag, its class tokens in order, an id (or None), its other attributes as
\* <<name, value>> pairs in order, and its children; a text node has the tag
\* "#text" and its text.
Elem(tag, cls, id, attrs, kids) ==
    [tag |-> tag, cls |-> cls, id |-> id, attrs |-> attrs, text |-> "", kids |-> kids]

Text(s) ==
    [tag |-> "#text", cls |-> <<>>, id |-> None, attrs |-> <<>>, text |-> s, kids |-> <<>>]

\* element.get(name): the attribute's value, or None when it is missing.
Get(element, name) ==
    IF \E i \in 1..Len(element.attrs) : element.attrs[i][1] = name
    THEN LET i == CHOOSE k \in 1..Len(element.attrs) :
                      /\ element.attrs[k][1] = name
                      /\ \A m \in 1..(k - 1) : element.attrs[m][1] # name
         IN element.attrs[i][2]
    ELSE None

\* Python's "a or b" on Optional[str] values.
Or(a, b) == IF Falsy(a) THEN b ELSE a

\* --------------------------------------------------------------- float()
Digits == {"0", "1", "2", "3", "4", "5", "6", "7", "8", "9"}

AllIn(s, S) == \A i \in 1..Len(s) : SubSeq(s, i, i) \in S

RECURSIVE StripLeadingZeros(_)
StripLeadingZeros(s) ==
    IF Len(s) > 0 /\ SubSeq(s, 1, 1) = "0" THEN StripLeadingZeros(SubSeq(s, 2, Len(s)))
    ELSE s

RECURSIVE StripTrailingZeros(_)
StripTrailingZeros(s) ==
    IF Len(s) > 0 /\ SubSeq(s, Len(s), Len(s)) = "0"
    THEN StripTrailingZeros(SubSeq(s, 1, Len(s) - 1))
    ELSE s

\* float(s) for the decimal notation [sign] digits [. digits]: the value is
\* held as Python's repr of it ("41.123", "0.0", "-0.0"); any other text
\* raises ValueError. (Exponents, inf and nan are outside the modelled inputs.)
float(s) ==
    LET t == strip(s)
        signed == Len(t) > 0 /\ SubSeq(t, 1, 1) \in {"+", "-"}
        negative == signed /\ SubSeq(t, 1, 1) = "-"
        body == IF signed THEN SubSeq(t, 2, Len(t)) ELSE t
        dots == {i \in 1..Len(body) : SubSeq(body, i, i) = "."}
        dot == IF dots = {} THEN Len(body) + 1 ELSE CHOOSE i \in dots : TRUE
        int_part == SubSeq(body, 1, dot - 1)
        frac_part == SubSeq(body, dot + 1, Len(body))
        well_formed == /\ Cardinality(dots) <= 1
                       /\ AllIn(int_part, Digits) /\ AllIn(frac_part, Digits)
                       /\ Len(int_part) + Len(frac_part) > 0
        i0 == StripLeadingZeros(int_part)
        f0 == StripTrailingZeros(frac_part)
    IN IF ~well_formed THEN [raised |-> TRUE, value |-> None]
       ELSE [raised |-> FALSE,
             value |-> (IF negative THEN "-" ELSE "")
                       \o (IF i0 = "" THEN "0" ELSE i0) \o "."
                       \o (IF f0 = "" THEN "0" ELSE f0)]

\* The float values that are numerically zero.
IsZeroFloat(v) == v \in {"0.0", "-0.0"}

extract_coordinates(element) ==
    LET lat == Or(Get(element, "data-latitude"), Get(element, "data-lat"))
        lng == Or(Or(Get(element, "data-longitude"), Get(element, "data-lng")),
                  Get(element, "data-lon"))
        lat_float == IF ~Falsy(lat) /\ lat # "0.0" THEN float(lat)
                     ELSE [raised |-> FALSE, value |-> None]
        lng_float == IF ~Falsy(lng) /\ lng # "0.0" THEN float(lng)
                     ELSE [raised |-> FALSE, value |-> None]
    IN IF lat_float.raised \/ lng_float.raised
       THEN <<None, None>>
       ELSE <<lat_float.value, lng_float.value>>

\* Attribute texts: missing, empty, the "0.0" sentinel, other spellings of
\* zero, a number, and a non-numeric text.
CoordTexts == {None, "", "0.0", "0", "-0.00", "41.123", "abc"}

CoordAttrNames == <<"data-latitude", "data-lat", "data-longitude", "data-lng", "data-lon">>

\* The attribute list of an element that carries value v[i] for the i-th
\* coordinate attribute, a missing attribute being left out.
RECURSIVE CoordAttrs(_, _)
CoordAttrs(v, i) ==
    IF i > Len(CoordAttrNames) THEN <<>>
    ELSE (IF v[i] = None THEN <<>> ELSE << <<CoordAttrNames[i], v[i]>> >>)
         \o CoordAttrs(v, i + 1)

CoordElems ==
    {Elem("li", <<"site">>, None, CoordAttrs(v, 1), <<>>) :
        v \in [1..Len(CoordAttrNames) -> CoordTexts]}

IdleCoords == cElem = Text("") /\ cResult = <<None, None>> /\ cpc = "idle"

InitCoords ==
    /\ cElem \in CoordElems
    /\ cResult = <<None, None>>
    /\ cpc = "call"

ExtractCoordinates ==
    /\ cpc = "call"
    /\ cResult' = extract_coordinates(cElem)
    /\ cpc' = "return"
    /\ UNCHANGED <<cElem, exceptCoords>>

\* ------------------------------------------------- querying a document
\* find() returning None.
NoTag == [tag |-> "#none", cls |-> <<>>, id |-> None, attrs |-> <<>>, text |-> "", kids |-> <<>>]

Found(e) == e.tag # "#none"

\* BeautifulSoup(...): the document object holding the top-level nodes.
Soup(nodes) == Elem("[document]", <<>>, None, <<>>, nodes)

\* The elements below a list of nodes, in document order.
RECURSIVE DescSeq(_)
DescSeq(nodes) ==
    IF Len(nodes) = 0 THEN <<>>
    ELSE LET h == Head(nodes)
         IN (IF h.tag = "#text" THEN <<>> ELSE <<h>> \o DescSeq(h.kids))
            \o DescSeq(Tail(nodes))

\* tag.find_all(...): the descendants of e that satisfy Match, in order.
find_all(e, Match(_)) == SelectSeq(DescSeq(e.kids), Match)

\* tag.find(...): the first such descendant, or None.
find(e, Match(_)) ==
    LET all == find_all(e, Match) IN IF Len(all) = 0 THEN NoTag ELSE all[1]

\* tag.get_text(): the text nodes below a list of nodes, concatenated.
RECURSIVE TextOf(_)
TextOf(nodes) ==
    IF Len(nodes) = 0 THEN ""
    ELSE LET h == Head(nodes)
         IN (IF h.tag = "#text" THEN h.text ELSE TextOf(h.kids)) \o TextOf(Tail(nodes))

get_text(e) == TextOf(e.kids)

RECURSIVE Join(_, _)
Join(parts, sep) ==
    IF Len(parts) = 0 THEN ""
    ELSE IF Len(parts) = 1 THEN parts[1]
    ELSE parts[1] \o sep \o Join(Tail(parts), sep)

\* The value of the class attribute as written in the markup.
ClassAttr(e) == Join(e.cls, " ")

\* bs4's class_=<str>: a class token equals it, or the whole attribute does.
HasClass(e, c) ==
    /\ Len(e.cls) > 0
    /\ ((\E i \in 1..Len(e.cls) : e.cls[i] = c) \/ ClassAttr(e) = c)

\* soupsieve's [class*="part"]
ClassContains(e, part) == Len(e.cls) > 0 /\ Contains(ClassAttr(e), part)

\* soupsieve's [id*="part"]
IdContains(e, part) == e.id # None /\ Contains(e.id, part)

\* re.search(a + ".*" + b, s): a, and later b, within s (s has no newline).
SearchThen(s, a, b) ==
    \E i \in 1..(Len(s) - Len(a) + 1) :
        /\ SubSeq(s, i, i + Len(a) - 1) = a
        /\ Contains(SubSeq(s, i + Len(a), Len(s)), b)

\* bs4's class_=re.compile(r'(card.*location|location.*card|parish.*card)'):
\* the pattern is searched in each class token and in the whole attribute;
\* a token is part of the attribute, so the attribute decides.
CardClassPattern(e) ==
    /\ Len(e.cls) > 0
    /\ \/ SearchThen(ClassAttr(e), "card", "location")
       \/ SearchThen(ClassAttr(e), "location", "card")
       \/ SearchThen(ClassAttr(e), "parish", "card")

\* str(soup): the markup of a list of nodes.
RECURSIVE AttrsHtml(_)
AttrsHtml(attrs) ==
    IF Len(attrs) = 0 THEN ""
    ELSE " " \o attrs[1][1] \o "=\"" \o attrs[1][2] \o "\"" \o AttrsHtml(Tail(attrs))

RECURSIVE Html(_)
Html(nodes) ==
    IF Len(nodes) = 0 THEN ""
    ELSE LET h == Head(nodes)
         IN (IF h.tag = "#text" THEN h.text
             ELSE "<" \o h.tag
                  \o (IF Len(h.cls) > 0 THEN " class=\"" \o ClassAttr(h) \o "\"" ELSE "")
                  \o (IF h.id # None THEN " id=\"" \o h.id \o "\"" ELSE "")
                  \o AttrsHtml(h.attrs) \o ">"
                  \o Html(h.kids) \o "</" \o h.tag \o ">")
            \o Html(Tail(nodes))

\* soup.find_all('li', class_='site')
IsSiteItem(e) == e.tag = "li" /\ HasClass(e, "site")

\* ------------------------------------------------ webdriver.py utilities
\* s.split(sep) for a one-character separator.
RECURSIVE SplitOn(_, _)
SplitOn(s, sep) ==
    IF ~Contains(s, sep) THEN <<s>>
    ELSE LET i == CHOOSE k \in 1..Len(s) :
                      /\ SubSeq(s, k, k) = sep
                      /\ \A m \in 1..(k - 1) : SubSeq(s, m, m) # sep
         IN <<SubSeq(s, 1, i - 1)>> \o SplitOn(SubSeq(s, i + 1, Len(s)), sep)

\* s.split(): the maximal runs of non-whitespace characters.
RECURSIVE SplitWs(_)
SplitWs(s) ==
    LET t == lstrip(s)
    IN IF Len(t) = 0 THEN <<>>
       ELSE IF \E k \in 1..Len(t) : SubSeq(t, k, k) \in Whitespace
       THEN LET i == CHOOSE k \in 1..Len(t) :
                         /\ SubSeq(t, k, k) \in Whitespace
                         /\ \A m \in 1..(k - 1) : SubSeq(t, m, m) \notin Whitespace
            IN <<SubSeq(t, 1, i - 1)>> \o SplitWs(SubSeq(t, i + 1, Len(t)))
       ELSE <<t>>

clean_text(text) == IF Falsy(text) THEN "" ELSE Join(SplitWs(strip(text)), " ")

\* The character of s at position i, "" beyond its end.
Ch(s, i) == IF i >= 1 /\ i <= Len(s) THEN SubSeq(s, i, i) ELSE ""

DigitsAt(s, i, n) == i + n - 1 <= Len(s) /\ AllIn(SubSeq(s, i, i + n - 1), Digits)

PhoneSeparators == {"-", "."} \cup Whitespace

\* re.match of \(?(\d{3})\)?[-.\s]?(\d{3})[-.\s]?(\d{4}) at position i: the
\* three groups, or <<>>. Each optional character can only be taken when it
\* is there, since a digit must follow it.
PhonePattern1At(s, i) ==
    LET a == i + (IF Ch(s, i) = "(" THEN 1 ELSE 0)
        b == a + 3 + (IF Ch(s, a + 3) = ")" THEN 1 ELSE 0)
        c == b + (IF Ch(s, b) \in PhoneSeparators THEN 1 ELSE 0)
        d == c + 3 + (IF Ch(s, c + 3) \in PhoneSeparators THEN 1 ELSE 0)
    IN IF DigitsAt(s, a, 3) /\ DigitsAt(s, c, 3) /\ DigitsAt(s, d, 4)
       THEN <<SubSeq(s, a, a + 2), SubSeq(s, c, c + 2), SubSeq(s, d, d + 3)>>
       ELSE <<>>

\* re.match of (\d{3})\.(\d{3})\.(\d{4}) at position i.
PhonePattern2At(s, i) ==
    IF DigitsAt(s, i, 3) /\ Ch(s, i + 3) = "." /\ DigitsAt(s, i + 4, 3)
       /\ Ch(s, i + 7) = "." /\ DigitsAt(s, i + 8, 4)
    THEN <<SubSeq(s, i, i + 2), SubSeq(s, i + 4, i + 6), SubSeq(s, i + 8, i + 11)>>
    ELSE <<>>

\* re.match of (\d{10}) at position i.
PhonePattern3At(s, i) ==
    IF DigitsAt(s, i, 10) THEN <<SubSeq(s, i, i + 9)>> ELSE <<>>

\* re.search: the match at the leftmost position that has one, or <<>>.
Search(s, MatchAt(_, _)) ==
    IF \E i \in 1..Len(s) : MatchAt(s, i) # <<>>
    THEN MatchAt(s, CHOOSE i \in 1..Len(s) :
                        /\ MatchAt(s, i) # <<>>
                        /\ \A m \in 1..(i - 1) : MatchAt(s, m) = <<>>)
    ELSE <<>>

FormatPhone(groups) ==
    IF Len(groups) = 3
    THEN "(" \o groups[1] \o ") " \o groups[2] \o "-" \o groups[3]
    ELSE LET digits == groups[1]
         IN "(" \o SubSeq(digits, 1, 3) \o ") " \o SubSeq(digits, 4, 6)
            \o "-" \o SubSeq(digits, 7, Len(digits))

extract_phone(text) ==
    IF Falsy(text) THEN None
    ELSE LET m1 == Search(text, PhonePattern1At)
             m2 == Search(text, PhonePattern2At)
             m3 == Search(text, PhonePattern3At)
         IN IF m1 # <<>> THEN FormatPhone(m1)
            ELSE IF m2 # <<>> THEN FormatPhone(m2)
            ELSE IF m3 # <<>> THEN FormatPhone(m3)
            ELSE None

\* [line.strip() for line in text.split('\n') if line.strip()]
text_lines(text) ==
    LET raw == SplitOn(text, "\n")
        stripped == [k \in 1..Len(raw) |-> strip(raw[k])]
    IN SelectSeq(stripped, LAMBDA line : line # "")

HeadingTags == {"h1", "h2", "h3", "h4", "h5"}

\* The list of the records of each candidate, in order; a candidate gives
\* <<>> (None) or one record.
RECURSIVE Concat(_)
Concat(seqs) == IF Len(seqs) = 0 THEN <<>> ELSE Head(seqs) \o Concat(Tail(seqs))

CollectFrom(candidates, ExtractOne(_)) ==
    Concat([i \in 1..Len(candidates) |-> ExtractOne(candidates[i])])

\* -------------------------------------------------- ParishFinderExtractor
\* (address, phone, website) of a siteInfo block, the phone taken as written
extract_from_site_info_RawPhone(site_info) ==
    LET title_section == find(site_info, LAMBDA e : e.tag = "div" /\ HasClass(e, "title"))
        address_elem == find(title_section, LAMBDA e : e.tag = "div" /\ HasClass(e, "address"))
        phone_elem == find(title_section, LAMBDA e : e.tag = "span" /\ HasClass(e, "phone"))
        link_container ==
            find(site_info, LAMBDA e : e.tag = "div" /\ HasClass(e, "linkContainer"))
        url_link == find(link_container, LAMBDA e : e.tag = "a" /\ HasClass(e, "urlLink"))
    IN << IF Found(title_section) /\ Found(address_elem)
          THEN clean_text(get_text(address_elem)) ELSE None,
          IF Found(title_section) /\ Found(phone_elem)
          THEN clean_text(get_text(phone_elem)) ELSE None,
          IF Found(link_container) /\ Found(url_link)
          THEN Get(url_link, "href") ELSE None >>

\* (address, phone, website) of a siteInfo block
extract_from_site_info(site_info) ==
    LET title_section == find(site_info, LAMBDA e : e.tag = "div" /\ HasClass(e, "title"))
        address_elem == find(title_section, LAMBDA e : e.tag = "div" /\ HasClass(e, "address"))
        phone_elem == find(title_section, LAMBDA e : e.tag = "span" /\ HasClass(e, "phone"))
        link_container ==
            find(site_info, LAMBDA e : e.tag = "div" /\ HasClass(e, "linkContainer"))
        url_link == find(link_container, LAMBDA e : e.tag = "a" /\ HasClass(e, "urlLink"))
    IN << IF Found(title_section) /\ Found(address_elem)
          THEN clean_text(get_text(address_elem)) ELSE None,
          IF Found(title_section) /\ Found(phone_elem)
          THEN extract_phone(get_text(phone_elem)) ELSE None,
          IF Found(link_container) /\ Found(url_link)
          THEN Get(url_link, "href") ELSE None >>

extract_parish_from_site(site) ==
    LET name_elem == find(site, LAMBDA e : e.tag = "div" /\ HasClass(e, "name"))
        name == clean_text(get_text(name_elem))
        city_elem == find(site, LAMBDA e : e.tag = "div" /\ HasClass(e, "city"))
        site_info == find(site, LAMBDA e : e.tag = "div" /\ HasClass(e, "siteInfo"))
        info == IF Found(site_info) THEN extract_from_site_info(site_info)
                ELSE <<None, None, None>>
        coords == extract_coordinates(site)
    IN IF ~Found(name_elem) THEN <<>>
       ELSE IF ~validate_parish_name(name) THEN <<>>
       ELSE << Parish(name,
                      IF Found(city_elem) THEN clean_text(get_text(city_elem)) ELSE None,
                      info[1], info[2], info[3], coords[1], coords[2],
                      90, "parish_finder") >>

ParishFinderExtractor_extract(soup) ==
    LET sites == find_all(soup, IsSiteItem)
    IN remove_duplicates(CollectFrom(sites, extract_parish_from_site))

\* --------------------------------------------------- CardLayoutExtractor
HasToken(e, c) == \E i \in 1..Len(e.cls) : e.cls[i] = c

\* soup.select(selector) for the five card selectors, in document order.
card_selectors(soup) ==
    << find_all(soup, LAMBDA e : e.tag = "div" /\ HasToken(e, "col-lg")
                                 /\ HasToken(e, "location")),
       find_all(soup, LAMBDA e : ClassContains(e, "parish-card")),
       find_all(soup, LAMBDA e : ClassContains(e, "location-card")),
       find_all(soup, LAMBDA e : ClassContains(e, "church-card")),
       find_all(soup, LAMBDA e : HasToken(e, "card")) >>

\* The first non-empty selection of a list, or <<>>.
FirstNonEmpty(selections) ==
    IF \E i \in 1..Len(selections) : Len(selections[i]) > 0
    THEN selections[CHOOSE i \in 1..Len(selections) :
                        /\ Len(selections[i]) > 0
                        /\ \A m \in 1..(i - 1) : Len(selections[m]) = 0]
    ELSE <<>>

find_title_element(card) ==
    LET title_elem == find(card, LAMBDA e : e.tag \in {"h3", "h4", "h5"}
                                            /\ ClassContains(e, "title"))
    IN IF Found(title_elem) THEN title_elem
       ELSE find(card, LAMBDA e : e.tag \in HeadingTags)

extract_city_from_card_AtMost50(card) ==
    LET body == find(card, LAMBDA e : e.tag = "div" /\ HasClass(e, "card-body"))
        lines == text_lines(get_text(body))
    IN IF Found(body) /\ Len(lines) > 1
          /\ ~StartsWith(lines[2], "Learn More") /\ Len(lines[2]) <= 50
       THEN clean_text(lines[2])
       ELSE None

extract_city_from_card(card) ==
    LET body == find(card, LAMBDA e : e.tag = "div" /\ HasClass(e, "card-body"))
        lines == text_lines(get_text(body))
    IN IF Found(body) /\ Len(lines) > 1
          /\ ~StartsWith(lines[2], "Learn More") /\ Len(lines[2]) < 50
       THEN clean_text(lines[2])
       ELSE None

\* The first link of elem whose href starts with http and names none of the
\* skipped sites, or None.
FirstWebsite(elem, skipped) ==
    LET links == find_all(elem, LAMBDA e : e.tag = "a" /\ Get(e, "href") # None)
        ok(link) == /\ StartsWith(Get(link, "href"), "http")
                    /\ ~AnyTermIn(skipped, lower(Get(link, "href")))
    IN IF \E i \in 1..Len(links) : ok(links[i])
       THEN Get(links[CHOOSE i \in 1..Len(links) :
                          ok(links[i]) /\ \A m \in 1..(i - 1) : ~ok(links[m])], "href")
       ELSE None

extract_website_from_card(card) == FirstWebsite(card, <<"facebook", "twitter", "instagram">>)

extract_parish_from_card(card) ==
    LET title_elem == find_title_element(card)
        name == clean_text(get_text(title_elem))
    IN IF ~Found(title_elem) THEN <<>>
       ELSE IF ~validate_parish_name(name) THEN <<>>
       ELSE << Parish(name, extract_city_from_card(card), None,
                      extract_phone(get_text(card)), extract_website_from_card(card),
                      None, None, 80, "card_layout") >>

CardLayoutExtractor_extract(soup) ==
    LET cards == FirstNonEmpty(card_selectors(soup))
    IN remove_duplicates(CollectFrom(cards, extract_parish_from_card))

\* -------------------------------------------------------- TableExtractor
LowerCase == {LowerOf[c] : c \in UpperCase}

\* \w of a regular expression
IsWordChar(c) == c \in UpperCase \cup LowerCase \cup Digits \cup {"_"}

\* re.search(r'\b(?:w1|w2|...)\b', text, re.I)
HasWord(text, words) ==
    LET t == lower(text)
    IN \E k \in 1..Len(words) :
          \E i \in 1..(Len(t) - Len(words[k]) + 1) :
              /\ SubSeq(t, i, i + Len(words[k]) - 1) = words[k]
              /\ ~IsWordChar(Ch(t, i - 1))
              /\ ~IsWordChar(Ch(t, i + Len(words[k])))

\* re.search(r'\d', text)
HasDigit(text) == \E i \in 1..Len(text) : SubSeq(text, i, i) \in Digits

table_street_words == <<"st", "street", "ave", "avenue", "rd", "road", "dr", "drive",
                        "ln", "lane", "blvd", "boulevard", "way", "circle", "court", "ct">>

looks_like_address(text) ==
    IF Falsy(text) \/ Len(strip(text)) < 5 THEN FALSE
    ELSE HasDigit(text) /\ HasWord(text, table_street_words)

looks_like_city(text) ==
    IF Falsy(text) THEN FALSE
    ELSE LET t == strip(text)
         IN /\ 5 < Len(t) /\ Len(t) < 30
            /\ ~HasDigit(t)
            /\ ~looks_like_address(t)
            /\ ~AnyTermIn(<<"http", "www", "@", ".com">>, lower(t))

\* The value Value(cell) of the first cell that satisfies Takes, or None:
\* a field of a row is set by the first cell that gives one and kept.
FirstCell(cells, Takes(_), Value(_)) ==
    IF \E i \in 1..Len(cells) : Takes(cells[i])
    THEN Value(cells[CHOOSE i \in 1..Len(cells) :
                         Takes(cells[i]) /\ \A m \in 1..(i - 1) : ~Takes(cells[m])])
    ELSE None

\* The href of the first link of a cell, when it starts with http.
CellWebsite(cell) ==
    LET link == find(cell, LAMBDA e : e.tag = "a" /\ Get(e, "href") # None)
    IN IF Found(link) /\ StartsWith(Get(link, "href"), "http")
       THEN Get(link, "href") ELSE None

\* A row extractor that leaves confidence and extraction_method at the
\* defaults of the Parish dataclass.
extract_parish_from_row_Defaults(row) ==
    LET cells == find_all(row, LAMBDA e : e.tag \in {"td", "th"})
        name == clean_text(get_text(cells[1]))
    IN IF Len(cells) < 1 THEN <<>>
       ELSE IF ~validate_parish_name(name) THEN <<>>
       ELSE << Parish(name, None, None, None, None, None, None, 50, "unknown") >>

extract_parish_from_row(row) ==
    LET cells == find_all(row, LAMBDA e : e.tag \in {"td", "th"})
        name == clean_text(get_text(cells[1]))
        rest == Tail(cells)
    IN IF Len(cells) < 1 THEN <<>>
       ELSE IF ~validate_parish_name(name) THEN <<>>
       ELSE << Parish(name,
                      FirstCell(rest, LAMBDA c : looks_like_city(get_text(c)),
                                LAMBDA c : clean_text(get_text(c))),
                      FirstCell(rest, LAMBDA c : looks_like_address(get_text(c)),
                                LAMBDA c : clean_text(get_text(c))),
                      FirstCell(rest, LAMBDA c : extract_phone(get_text(c)) # None,
                                LAMBDA c : extract_phone(get_text(c))),
                      FirstCell(rest, LAMBDA c : CellWebsite(c) # None, CellWebsite),
                      None, None, 85, "table") >>

extract_parishes_from_table_NoSkip(table) ==
    LET rows == find_all(table, LAMBDA e : e.tag = "tr")
    IN IF Len(rows) = 0 THEN <<>>
       ELSE CollectFrom(rows, extract_parish_from_row)

extract_parishes_from_table(table) ==
    LET rows == find_all(table, LAMBDA e : e.tag = "tr")
        data_rows == IF Len(rows) > 1 THEN Tail(rows) ELSE rows
    IN IF Len(rows) = 0 THEN <<>>
       ELSE CollectFrom(data_rows, extract_parish_from_row)

table_extract_keywords == <<"parish", "church", "name">>

TableExtractor_extract(soup) ==
    LET tables == find_all(soup, LAMBDA e : e.tag = "table")
        considered == SelectSeq(tables, LAMBDA t :
                          AnyTermIn(table_extract_keywords, lower(get_text(t))))
    IN remove_duplicates(CollectFrom(considered, extract_parishes_from_table))

\* ------------------------------------------------------ GenericExtractor
\* elements[:15]
GenericElementLimit == 15

extract_website_from_element(elem) ==
    FirstWebsite(elem, <<"facebook", "twitter", "instagram", "youtube">>)

extract_city_from_element(elem) ==
    LET lines == text_lines(get_text(elem))
        window == SubSeq(lines, 2, IF Len(lines) < 4 THEN Len(lines) ELSE 4)
        fits(line) == /\ Len(line) < 30
                      /\ ~AnyTermIn(<<"@", "http", "(", ")">>, line)
                      /\ Len(SplitWs(line)) <= 3
    IN IF \E i \in 1..Len(window) : fits(window[i])
       THEN clean_text(window[CHOOSE i \in 1..Len(window) :
                                  fits(window[i]) /\ \A m \in 1..(i - 1) : ~fits(window[m])])
       ELSE None

generic_street_words == <<"st", "street", "ave", "avenue", "rd", "road", "dr", "drive">>

extract_address_from_element(elem) ==
    LET lines == text_lines(get_text(elem))
        fits(line) == HasDigit(line) /\ HasWord(line, generic_street_words) /\ Len(line) > 10
    IN IF \E i \in 1..Len(lines) : fits(lines[i])
       THEN clean_text(lines[CHOOSE i \in 1..Len(lines) :
                                 fits(lines[i]) /\ \A m \in 1..(i - 1) : ~fits(lines[m])])
       ELSE None

extract_parish_from_element(elem) ==
    LET name_elem == find(elem, LAMBDA e : e.tag \in HeadingTags)
        name == clean_text(get_text(name_elem))
    IN IF ~Found(name_elem) THEN <<>>
       ELSE IF ~validate_parish_name(name) THEN <<>>
       ELSE << Parish(name, extract_city_from_element(elem),
                      extract_address_from_element(elem),
                      extract_phone(get_text(elem)),
                      extract_website_from_element(elem),
                      None, None, 40, "generic") >>

\* soup.select with [id*='parish'] tried right after [class*='parish'].
generic_selectors_IdSecond(soup) ==
    << find_all(soup, LAMBDA e : ClassContains(e, "parish")),
       find_all(soup, LAMBDA e : IdContains(e, "parish")),
       find_all(soup, LAMBDA e : ClassContains(e, "church")),
       find_all(soup, LAMBDA e : ClassContains(e, "location")),
       find_all(soup, LAMBDA e : e.tag = "article"),
       find_all(soup, LAMBDA e : HasToken(e, "entry")),
       find_all(soup, LAMBDA e : HasToken(e, "content-item")),
       find_all(soup, LAMBDA e : HasToken(e, "post")) >>

\* soup.select(selector) for the eight container selectors, in the order of
\* the selectors list.
generic_selectors(soup) ==
    << find_all(soup, LAMBDA e : ClassContains(e, "parish")),
       find_all(soup, LAMBDA e : ClassContains(e, "church")),
       find_all(soup, LAMBDA e : ClassContains(e, "location")),
       find_all(soup, LAMBDA e : e.tag = "article"),
       find_all(soup, LAMBDA e : HasToken(e, "entry")),
       find_all(soup, LAMBDA e : IdContains(e, "parish")),
       find_all(soup, LAMBDA e : HasToken(e, "content-item")),
       find_all(soup, LAMBDA e : HasToken(e, "post")) >>

\* A loop that stops at the first selector with elements, whatever they
\* yield.
RECURSIVE generic_loop_FirstMatchOnly(_, _, _)
generic_loop_FirstMatchOnly(selections, i, parishes) ==
    IF i > Len(selections) THEN parishes
    ELSE LET elements == selections[i]
             first == SubSeq(elements, 1,
                             IF Len(elements) < GenericElementLimit
                             THEN Len(elements) ELSE GenericElementLimit)
             found == parishes \o CollectFrom(first, extract_parish_from_element)
         IN IF Len(elements) = 0
            THEN generic_loop_FirstMatchOnly(selections, i + 1, parishes)
            ELSE found

\* The loop over the selectors from the i-th on.
RECURSIVE generic_loop(_, _, _)
generic_loop(selections, i, parishes) ==
    IF i > Len(selections) THEN parishes
    ELSE LET elements == selections[i]
             first == SubSeq(elements, 1,
                             IF Len(elements) < GenericElementLimit
                             THEN Len(elements) ELSE GenericElementLimit)
             found == parishes \o CollectFrom(first, extract_parish_from_element)
         IN IF Len(elements) = 0 THEN generic_loop(selections, i + 1, parishes)
            ELSE IF Len(found) > 0 THEN found
            ELSE generic_loop(selections, i + 1, found)

GenericExtractor_extract(soup) ==
    remove_duplicates(generic_loop(generic_selectors(soup), 1, <<>>))

\* ------------------------------------------------------------- SiteType
PARISH_FINDER == "parish_finder"
CARD_LAYOUT == "card_layout"
TABLE == "table"
MAP == "map"
GENERIC == "generic"

SiteType == {PARISH_FINDER, CARD_LAYOUT, TABLE, MAP, GENERIC}

\* ------------------------------------------------------ detect_site_type
finder_indicators(soup, url) ==
    LET html == lower(Html(soup.kids))
        url_lower == lower(url)
    IN \/ Contains(url_lower, "parishfinder")
       \/ Contains(url_lower, "parish-finder")
       \/ Contains(url_lower, "find-parish")
       \/ Contains(html, "finder.js")
       \/ Contains(html, "parish finder")
       \/ Contains(html, "findercore")
       \/ Found(find(soup, IsSiteItem))

card_indicators(soup) ==
    \/ Len(find_all(soup, LAMBDA e : e.tag = "div" /\ CardClassPattern(e))) > 0
    \/ Len(find_all(soup, LAMBDA e : e.tag = "div" /\ HasClass(e, "col-lg location"))) > 0
    \/ Len(find_all(soup, LAMBDA e : ClassContains(e, "parish-card"))) > 0
    \/ Len(find_all(soup, LAMBDA e : ClassContains(e, "location-card"))) > 0

table_keywords == <<"parish", "church", "name", "address">>

table_indicator(soup) ==
    LET tables == find_all(soup, LAMBDA e : e.tag = "table")
    IN \E i \in 1..Len(tables) : AnyTermIn(table_keywords, lower(get_text(tables[i])))

map_indicators(soup) ==
    LET html == lower(Html(soup.kids))
    IN \/ Contains(html, "leaflet")
       \/ Contains(html, "google.maps")
       \/ Contains(html, "mapbox")
       \/ Contains(html, "parish-map")
       \/ Found(find(soup, LAMBDA e : e.id = "map"))
       \/ Found(find(soup, LAMBDA e : HasClass(e, "map")))

\* A classifier that looks for maps before tables.
detect_site_type_MapFirst(soup, url) ==
    IF finder_indicators(soup, url) THEN PARISH_FINDER
    ELSE IF card_indicators(soup) THEN CARD_LAYOUT
    ELSE IF map_indicators(soup) THEN MAP
    ELSE IF table_indicator(soup) THEN TABLE
    ELSE GENERIC

detect_site_type(soup, url) ==
    IF finder_indicators(soup, url) THEN PARISH_FINDER
    ELSE IF card_indicators(soup) THEN CARD_LAYOUT
    ELSE IF table_indicator(soup) THEN TABLE
    ELSE IF map_indicators(soup) THEN MAP
    ELSE GENERIC

\* ------------------------------------------------------- sample documents
Leaf(tag, cls, s) == Elem(tag, cls, None, <<>>, <<Text(s)>>)

\* An eCatholic finder entry with every field.
SiteMary ==
    Elem("li", <<"site">>, None,
         << <<"data-latitude", "41.123">>, <<"data-longitude", "-81.456">> >>,
         << Leaf("div", <<"name">>, "St. Mary Parish"),
            Leaf("div", <<"city">>, "Cleveland"),
            Elem("div", <<"siteInfo">>, None, <<>>,
                 << Elem("div", <<"title">>, None, <<>>,
                         << Leaf("div", <<"address">>, "123 Main St"),
                            Leaf("span", <<"phone">>, "216-555-1234") >>),
                    Elem("div", <<"linkContainer">>, None, <<>>,
                         << Elem("a", <<"urlLink">>, None,
                                 << <<"href", "https://stmary.org">> >>,
                                 << Text("Web") >>) >>) >>) >>)

\* The same parish in another spelling, with a latitude only.
SiteMaryAgain ==
    Elem("li", <<"site", "alt">>, None, << <<"data-lat", "0">> >>,
         << Leaf("div", <<"name">>, " ST. MARY  PARISH ") >>)

\* A finder entry that is no parish.
SiteContact ==
    Elem("li", <<"site">>, None, <<>>,
         << Leaf("div", <<"name">>, "Contact Office") >>)

\* A Salt Lake City style card.
CardHoly ==
    Elem("div", <<"col-lg", "location">>, None, <<>>,
         << Elem("div", <<"card-body">>, None, <<>>,
                 << Leaf("h4", <<"card-title">>, "Holy Family Church"),
                    Text("\nMurray\n"),
                    Elem("a", <<>>, None, << <<"href", "/holy">> >>,
                         << Text("Learn More") >>) >>) >>)

\* A card whose heading is a navigation entry.
CardDirectory ==
    Elem("div", <<"parish-card">>, None, <<>>,
         << Leaf("h3", <<>>, "Parish Directory") >>)

TableJoseph ==
    Elem("table", <<>>, None, <<>>,
         << Elem("tr", <<>>, None, <<>>,
                 << Leaf("th", <<>>, "Parish Name"), Leaf("th", <<>>, "City") >>),
            Elem("tr", <<>>, None, <<>>,
                 << Leaf("td", <<>>, "St. Joseph Church"), Leaf("td", <<>>, "Denver") >>) >>)

\* A table whose only keyword is "address".
TableAddress ==
    Elem("table", <<>>, None, <<>>,
         << Elem("tr", <<>>, None, <<>>, << Leaf("td", <<>>, "Address") >>),
            Elem("tr", <<>>, None, <<>>, << Leaf("td", <<>>, "12 Elm Rd") >>) >>)

MapDiv == Elem("div", <<>>, "map", <<>>, <<>>)

FinderScript == Elem("script", <<>>, None, << <<"src", "/js/Finder.js">> >>, <<>>)

ArticleGrace ==
    Elem("article", <<>>, None, <<>>,
         << Leaf("h3", <<>>, "Our Lady of Grace Parish"),
            Text("\nAustin\n5 Oak Ave, Austin\n") >>)

ParishDiv ==
    Elem("div", <<"parish-item">>, "parish-1", <<>>,
         << Leaf("h2", <<>>, "Sacred Heart Chapel") >>)

Plain == Leaf("div", <<>>, "Just some regular content")

Nodes == {SiteMary, SiteMaryAgain, SiteContact, CardHoly, CardDirectory, TableJoseph,
          TableAddress, MapDiv, FinderScript, ArticleGrace, ParishDiv, Plain}

Documents == {Soup(nodes) : nodes \in SeqsUpTo(Nodes, MaxNodes)}

Urls == {"https://diocese.org/parishes", "https://diocese.org/ParishFinder"}

\* ------------------------------------------------ detect_site_type, applied
IdleClassify == kSoup = Soup(<<>>) /\ kUrl = "" /\ kType = GENERIC /\ kpc = "idle"

InitClassify ==
    /\ kSoup \in Documents
    /\ kUrl \in Urls
    /\ kType = GENERIC
    /\ kpc = "call"

DetectSiteType ==
    /\ kpc = "call"
    /\ kType' = detect_site_type(kSoup, kUrl)
    /\ kpc' = "return"
    /\ UNCHANGED <<kSoup, kUrl, exceptClassify>>

\* ------------------------------------------------------- extract, applied
Strategies == {"parish_finder", "card_layout", "table", "generic"}

IdleExtract == xSoup = Soup(<<>>) /\ xStrategy = "generic" /\ xParishes = <<>> /\ xpc = "idle"

InitExtract ==
    /\ xSoup \in Documents
    /\ xStrategy \in Strategies
    /\ xParishes = <<>>
    /\ xpc = "call"

ExtractParishFinder ==
    /\ xpc = "call" /\ xStrategy = "parish_finder"
    /\ xParishes' = ParishFinderExtractor_extract(xSoup)
    /\ xpc' = "return"
    /\ UNCHANGED <<xSoup, xStrategy, exceptExtract>>

ExtractCardLayout ==
    /\ xpc = "call" /\ xStrategy = "card_layout"
    /\ xParishes' = CardLayoutExtractor_extract(xSoup)
    /\ xpc' = "return"
    /\ UNCHANGED <<xSoup, xStrategy, exceptExtract>>

ExtractTable ==
    /\ xpc = "call" /\ xStrategy = "table"
    /\ xParishes' = TableExtractor_extract(xSoup)
    /\ xpc' = "return"
    /\ UNCHANGED <<xSoup, xStrategy, exceptExtract>>

ExtractGeneric ==
    /\ xpc = "call" /\ xStrategy = "generic"
    /\ xParishes' = GenericExtractor_extract(xSoup)
    /\ xpc' = "return"
    /\ UNCHANGED <<xSoup, xStrategy, exceptExtract>>

\* ---------------------------------------------------------- get_extractor
\* The registry: site type tag -> extractor class.
EXTRACTORS ==
    [parish_finder |-> "ParishFinderExtractor", card_layout |-> "CardLayoutExtractor",
     table |-> "TableExtractor", generic |-> "GenericExtractor"]

\* EXTRACTORS.get(site_type, GenericExtractor)
extractor_class(site_type) ==
    IF site_type \in DOMAIN EXTRACTORS THEN EXTRACTORS[site_type] ELSE "GenericExtractor"

\* An extractor object: its class and its identity.
NoExtractor == [class |-> "", id |-> 0]

\* extractor_class(): a new object, distinct from every object of the heap.
Construct(class, heap) == [class |-> class, id |-> Len(heap) + 1]

\* A get_extractor whose registry lookup has no default.
get_extractor_NoDefault(site_type, heap) ==
    Construct(IF site_type \in DOMAIN EXTRACTORS THEN EXTRACTORS[site_type] ELSE "",
              heap)

get_extractor(site_type, heap) == Construct(extractor_class(site_type), heap)

\* extractor.extract(soup, url, driver), dispatched on the object's class.
extract(extractor, soup) ==
    CASE extractor.class = "ParishFinderExtractor" -> ParishFinderExtractor_extract(soup)
      [] extractor.class = "CardLayoutExtractor" -> CardLayoutExtractor_extract(soup)
      [] extractor.class = "TableExtractor" -> TableExtractor_extract(soup)
      [] extractor.class = "GenericExtractor" -> GenericExtractor_extract(soup)

\* The tags get_extractor is called with: every SiteType value and strings
\* that are no key of the registry.
Tags == SiteType \cup {"unknown", "", "TABLE"}

IdleDispatch == gTag = "" /\ gExtractor = NoExtractor /\ gHeap = <<>>

InitDispatch == gTag = "" /\ gExtractor = NoExtractor /\ gHeap = <<>>

GetExtractor ==
    /\ Len(gHeap) < MaxCalls
    /\ \E site_type \in Tags :
          /\ gTag' = site_type
          /\ gExtractor' = get_extractor(site_type, gHeap)
          /\ gHeap' = Append(gHeap, get_extractor(site_type, gHeap))
    /\ UNCHANGED exceptDispatch

\* -------------------------------- extract_parishes_from_directory
\* models.ExtractionResult (processing_time left out)
ExtractionResult(diocese, directory_url, parishes, site_type, success, errors) ==
    [diocese_name |-> diocese.name, diocese_url |-> diocese.url,
     directory_url |-> directory_url, parishes |-> parishes, site_type |-> site_type,
     success |-> success, errors |-> errors, saved_count |-> 0]

NoResult ==
    [diocese_name |-> "", diocese_url |-> "", directory_url |-> "", parishes |-> <<>>,
     site_type |-> GENERIC, success |-> FALSE, errors |-> <<>>, saved_count |-> 0]

TheDiocese == [name |-> "Diocese of Cleveland", url |-> "https://diocese.org"]

IdlePipeline ==
    /\ ppc = "idle" /\ pUrl = "" /\ pDriver = "none" /\ pSoup = Soup(<<>>)
    /\ pSiteType = GENERIC /\ pExc = None /\ pResult = NoResult /\ pRaised = None

\* The call extract_parishes_from_directory(diocese, directory_url).
InitPipeline ==
    /\ ppc = "setup_driver"
    /\ pUrl \in Urls
    /\ pDriver = "none" /\ pSoup = Soup(<<>>) /\ pSiteType = GENERIC
    /\ pExc = None /\ pResult = NoResult /\ pRaised = None

\* driver = setup_driver(), before the try block: the session opens, or the
\* browser cannot be installed or started and the exception leaves the method.
SetupDriver ==
    /\ ppc = "setup_driver"
    /\ \/ pDriver' = "open" /\ ppc' = "load_page" /\ UNCHANGED pRaised
       \/ pRaised' = "WebDriverException" /\ ppc' = "raised" /\ UNCHANGED pDriver
    /\ UNCHANGED <<pUrl, pSoup, pSiteType, pExc, pResult, exceptPipeline>>

\* soup = load_page(driver, directory_url): a document, or an exception once
\* the retries are used up.
LoadPage ==
    /\ ppc = "load_page"
    /\ \/ \E soup \in Documents : pSoup' = soup /\ ppc' = "detect" /\ UNCHANGED pExc
       \/ pExc' = "RetryError" /\ ppc' = "except" /\ UNCHANGED pSoup
    /\ UNCHANGED <<pUrl, pDriver, pSiteType, pResult, pRaised, exceptPipeline>>

\* site_type = detect_site_type(soup, directory_url)
Detect ==
    /\ ppc = "detect"
    /\ \/ pSiteType' = detect_site_type(pSoup, pUrl) /\ ppc' = "extract" /\ UNCHANGED pExc
       \/ pExc' = "RecursionError" /\ ppc' = "except" /\ UNCHANGED pSiteType
    /\ UNCHANGED <<pUrl, pDriver, pSoup, pResult, pRaised, exceptPipeline>>

\* extractor = get_extractor(site_type.value); parishes = extractor.extract(...)
\* and the return of the outcome; or the strategy raises.
Extract ==
    /\ ppc = "extract"
    /\ \/ LET extractor == get_extractor(pSiteType, <<>>)
              parishes == extract(extractor, pSoup)
          IN /\ pResult' = ExtractionResult(TheDiocese, pUrl, parishes, pSiteType,
                                            Len(parishes) > 0, <<>>)
             /\ ppc' = "finally"
             /\ UNCHANGED pExc
       \/ pExc' = "AttributeError" /\ ppc' = "except" /\ UNCHANGED pResult
    /\ UNCHANGED <<pUrl, pDriver, pSoup, pSiteType, pRaised, exceptPipeline>>

\* except Exception as e: the failure outcome.
Except ==
    /\ ppc = "except"
    /\ pResult' = ExtractionResult(TheDiocese, pUrl, <<>>, GENERIC, FALSE,
                                   <<"Extraction error: " \o pExc>>)
    /\ ppc' = "finally"
    /\ UNCHANGED <<pUrl, pDriver, pSoup, pSiteType, pExc, pRaised, exceptPipeline>>

\* finally: driver.quit(), then the method returns pResult.
Finally ==
    /\ ppc = "finally"
    /\ pDriver' = "quit"
    /\ ppc' = "returned"
    /\ UNCHANGED <<pUrl, pSoup, pSiteType, pExc, pResult, pRaised, exceptPipeline>>

\* --------------------------------------------------------- Parish.to_dict
\* A dict is the sequence of its <<key, value>> items in insertion order.
HasKey(d, key) == \E i \in 1..Len(d) : d[i][1] = key

\* d[key]
Item(d, key) == d[CHOOSE i \in 1..Len(d) : d[i][1] = key][2]

\* d.update({key: value})
dict_update(d, key, value) ==
    IF HasKey(d, key)
    THEN [i \in 1..Len(d) |-> IF d[i][1] = key THEN <<key, value>> ELSE d[i]]
    ELSE Append(d, <<key, value>>)

\* datetime.now().isoformat()
Now == "2026-01-01T00:00:00"

\* A to_dict that drops the fields that are None only.
to_dict_KeepEmpty(parish) ==
    LET kept(k, v) == IF v # None THEN << <<k, v>> >> ELSE <<>>
    IN kept("Name", parish.name) \o kept("City", parish.city)
       \o kept("Street Address", parish.address) \o kept("Phone Number", parish.phone)
       \o kept("Web", parish.website) \o kept("latitude", parish.latitude)
       \o kept("longitude", parish.longitude)
       \o << <<"confidence_score", parish.confidence>> >>
       \o kept("extraction_method", parish.extraction_method)
       \o kept("extracted_at", Now)

\* The items whose value is neither None nor ""; confidence is a float, which
\* is neither.
to_dict(parish) ==
    LET kept(k, v) == IF v # None /\ v # "" THEN << <<k, v>> >> ELSE <<>>
    IN kept("Name", parish.name) \o kept("City", parish.city)
       \o kept("Street Address", parish.address) \o kept("Phone Number", parish.phone)
       \o kept("Web", parish.website) \o kept("latitude", parish.latitude)
       \o kept("longitude", parish.longitude)
       \o << <<"confidence_score", parish.confidence>> >>
       \o kept("extraction_method", parish.extraction_method)
       \o kept("extracted_at", Now)

\* Records as the strategies and the dataclass defaults can fill them, with
\* empty strings where a page gives an empty text.
ToDictParishes ==
    {Parish(name, city, address, phone, website, latitude, longitude, cm[1], cm[2]) :
        name \in {"St. Mary Parish", ""}, city \in {None, "", "Cleveland"},
        address \in {None, "12 Elm Rd"}, phone \in {None, "(216) 555-1234"},
        website \in {None, "", "https://stmary.org"},
        latitude \in {None, "41.123", "0.0"}, longitude \in {None, "-81.456"},
        cm \in {<<90, "parish_finder">>, <<50, "unknown">>}}

IdleToDict == tParish = Parish("", None, None, None, None, None, None, 50, "unknown")
              /\ tDict = <<>> /\ tpc = "idle"

InitToDict == tParish \in ToDictParishes /\ tDict = <<>> /\ tpc = "call"

\* data = parish.to_dict()
ToDict ==
    /\ tpc = "call"
    /\ tDict' = to_dict(tParish)
    /\ tpc' = "return"
    /\ UNCHANGED <<tParish, exceptToDict>>

\* ---------------------------------------------- save_parishes_to_database
batch_size == 10

\* What the sink answers to one insert: the rows are stored, the response
\* carries an error, or execute() raises (duplicate key, timeout, other).
BatchOutcomes == {"ok", "response_error", "duplicate", "timeout", "exception"}

\* batch_data of one batch: to_dict of each record, updated with the
\* provenance arguments of the call.
batch_data_of(batch, diocese_url, directory_url, extraction_method) ==
    [i \in 1..Len(batch) |->
        dict_update(dict_update(dict_update(to_dict(batch[i]),
            "diocese_url", diocese_url), "parish_directory_url", directory_url),
            "extraction_method", extraction_method)]

\* A batch loop that gives up at the first batch the sink does not store.
RECURSIVE save_loop_Abort(_, _, _, _, _)
save_loop_Abort(parishes, provenance, outcomes, i, acc) ==
    IF i >= Len(parishes) THEN acc
    ELSE LET batch == SubSeq(parishes, i + 1,
                             IF i + batch_size < Len(parishes) THEN i + batch_size
                             ELSE Len(parishes))
             batch_data == batch_data_of(batch, provenance[1], provenance[2],
                                         provenance[3])
             k == Len(acc.inserts) + 1
             next == [saved_count |-> acc.saved_count + Len(batch_data),
                      failed_count |-> acc.failed_count,
                      inserts |-> Append(acc.inserts, batch_data)]
         IN IF outcomes[k] = "ok"
            THEN save_loop_Abort(parishes, provenance, outcomes, i + batch_size, next)
            ELSE [saved_count |-> acc.saved_count,
                  failed_count |-> acc.failed_count + Len(batch_data),
                  inserts |-> Append(acc.inserts, batch_data)]

\* The batch loop from record offset i (the k-th batch) on; acc holds
\* saved_count, failed_count and the batch_data handed to insert so far.
RECURSIVE save_loop(_, _, _, _, _)
save_loop(parishes, provenance, outcomes, i, acc) ==
    IF i >= Len(parishes) THEN acc
    ELSE LET batch == SubSeq(parishes, i + 1,
                             IF i + batch_size < Len(parishes) THEN i + batch_size
                             ELSE Len(parishes))
             batch_data == batch_data_of(batch, provenance[1], provenance[2],
                                         provenance[3])
             k == Len(acc.inserts) + 1
             saved == outcomes[k] = "ok"
         IN save_loop(parishes, provenance, outcomes, i + batch_size,
                [saved_count |-> acc.saved_count + (IF saved THEN Len(batch_data) ELSE 0),
                 failed_count |-> acc.failed_count + (IF saved THEN 0 ELSE Len(batch_data)),
                 inserts |-> Append(acc.inserts, batch_data)])

\* save_parishes_to_database(parishes, diocese_url, directory_url,
\* extraction_method) with config.supabase = supabase, the sink answering the
\* k-th insert with outcomes[k].
save_parishes_to_database(parishes, provenance, supabase, outcomes) ==
    IF supabase = None
    THEN [saved_count |-> 0, failed_count |-> 0, inserts |-> <<>>]
    ELSE save_loop(parishes, provenance, outcomes, 0,
                   [saved_count |-> 0, failed_count |-> 0, inserts |-> <<>>])

\* The number of batches of a list of at most MaxRecords records.
MaxBatches == (MaxRecords + batch_size - 1) \div batch_size

Numerals == <<"0", "1", "2", "3", "4", "5", "6", "7", "8", "9">>

\* A list of n records with the names "St. Mary Parish 01", "... 02", ...
RecordList(n) ==
    [i \in 1..n |->
        Parish("St. Mary Parish " \o Numerals[(i \div 10) + 1] \o Numerals[(i % 10) + 1],
               None, None, None, None, None, None, 90, "parish_finder")]

SaveProvenance == <<"https://diocese.org", "https://diocese.org/parishes", "parish_finder">>

IdleSave ==
    /\ sParishes = <<>> /\ sSupabase = None /\ sOutcomes = <<>>
    /\ sResult = [saved_count |-> 0, failed_count |-> 0, inserts |-> <<>>]
    /\ spc = "idle"

InitSave ==
    /\ sParishes \in {RecordList(n) : n \in 0..MaxRecords}
    /\ sSupabase \in {None, "client"}
    /\ sOutcomes \in [1..MaxBatches -> BatchOutcomes]
    /\ sResult = [saved_count |-> 0, failed_count |-> 0, inserts |-> <<>>]
    /\ spc = "call"

\* saved_count = save_parishes_to_database(parishes, ...)
SaveParishes ==
    /\ spc = "call"
    /\ sResult' = save_parishes_to_database(sParishes, SaveProvenance, sSupabase,
                                            sOutcomes)
    /\ spc' = "return"
    /\ UNCHANGED <<sParishes, sSupabase, sOutcomes, exceptSave>>

\* ------------------------------ run_full_extraction, process_single_diocese
\* update_directory_status(diocese_url, directory_url, success, method): the
\* call as the log of status updates records it.
update_directory_status(diocese_url, directory_url, success, method) ==
    [diocese_url |-> diocese_url, parish_directory_url |-> directory_url,
     success |-> success, found_method |-> method]

\* Diocese.from_dict(d)
Diocese_from_dict(d) == [name |-> d.Name, url |-> d.Website]

\* Rows of the Dioceses table.
DioceseRows ==
    << [Name |-> "Diocese of Cleveland", Website |-> "https://cleveland.example"],
       [Name |-> "Diocese of Denver", Website |-> "https://denver.example"],
       [Name |-> "Diocese of Austin", Website |-> "https://austin.example"],
       [Name |-> "Diocese of Salt Lake City", Website |-> "https://slc.example"] >>

\* Directory pages: no parish at all, a parish finder page, a map page with
\* one article of a parish.
RunDocuments == {Soup(<<Plain>>), Soup(<<SiteMary>>), Soup(<<MapDiv, ArticleGrace>>)}

\* The rows of the batches the sink stored.
RECURSIVE StoredRows(_, _, _)
StoredRows(inserts, outcomes, k) ==
    IF k > Len(inserts) THEN <<>>
    ELSE (IF outcomes[k] = "ok" THEN inserts[k] ELSE <<>>)
         \o StoredRows(inserts, outcomes, k + 1)

IdleRun ==
    /\ rTable = <<>> /\ rDioceses = <<>> /\ rI = 0 /\ rpc = "idle" /\ rDirectory = None
    /\ rResult = NoResult /\ rExc = None /\ rResults = <<>> /\ rStatus = <<>>
    /\ rLog = <<>> /\ rSink = <<>> /\ rSaves = <<>>

\* The call run_full_extraction() on a Dioceses table of up to MaxDioceses rows.
InitRun ==
    /\ rTable \in {SubSeq(DioceseRows, 1, n) : n \in 0..MaxDioceses}
    /\ rDioceses = <<>> /\ rI = 0 /\ rpc = "get_dioceses" /\ rDirectory = None
    /\ rResult = NoResult /\ rExc = None /\ rResults = <<>> /\ rStatus = <<>>
    /\ rLog = <<>> /\ rSink = <<>> /\ rSaves = <<>>

\* dioceses_data = get_dioceses_to_process(...): the rows, or [] without a
\* sink client or when the query raises; no rows end the run with [].
GetDioceses ==
    /\ rpc = "get_dioceses"
    /\ \E dioceses_data \in {rTable, <<>>} :
          IF dioceses_data = <<>>
          THEN rpc' = "done" /\ UNCHANGED <<rDioceses, rI>>
          ELSE /\ rDioceses' = [i \in 1..Len(dioceses_data) |->
                                   Diocese_from_dict(dioceses_data[i])]
               /\ rI' = 1
               /\ rpc' = "find"
    /\ UNCHANGED <<rTable, rDirectory, rResult, rExc, rResults, rStatus, rLog, rSink,
                   rSaves, exceptRun>>

\* process_single_diocese, step 1: find_parish_directory raises, finds no
\* directory (status update, failure outcome) or returns the directory URL.
FindDirectory ==
    /\ rpc = "find"
    /\ rLog' = Append(rLog, <<"begin", rI>>)
    /\ LET diocese == rDioceses[rI]
       IN \/ /\ rExc' = "WebDriverException" /\ rpc' = "except"
             /\ UNCHANGED <<rDirectory, rResult, rStatus>>
          \/ /\ rStatus' = Append(rStatus, update_directory_status(diocese.url, None,
                                                                 FALSE, "ai_analysis"))
             /\ rResult' = ExtractionResult(diocese, "", <<>>, GENERIC, FALSE,
                                            <<"No parish directory found">>)
             /\ rpc' = "return"
             /\ UNCHANGED <<rDirectory, rExc>>
          \/ /\ rDirectory' = diocese.url \o "/parishes"
             /\ rpc' = "extract"
             /\ UNCHANGED <<rResult, rExc, rStatus>>
    /\ UNCHANGED <<rTable, rDioceses, rI, rResults, rSink, rSaves, exceptRun>>

\* Step 2: result = extract_parishes_from_directory(diocese, directory_url).
\* The call raises (setup_driver), returns the failure outcome of a caught
\* exception, or returns what the strategy extracted from the loaded page.
ExtractDirectory ==
    /\ rpc = "extract"
    /\ LET diocese == rDioceses[rI]
       IN \/ rExc' = "WebDriverException" /\ rpc' = "except" /\ UNCHANGED rResult
          \/ /\ rResult' = ExtractionResult(diocese, rDirectory, <<>>, GENERIC, FALSE,
                                            <<"Extraction error: RetryError">>)
             /\ rpc' = "store"
             /\ UNCHANGED rExc
          \/ \E soup \in RunDocuments :
                LET site_type == detect_site_type(soup, rDirectory)
                    parishes == extract(get_extractor(site_type, <<>>), soup)
                IN /\ rResult' = ExtractionResult(diocese, rDirectory, parishes,
                                                  site_type, Len(parishes) > 0, <<>>)
                   /\ rpc' = "store"
                   /\ UNCHANGED rExc
    /\ UNCHANGED <<rTable, rDioceses, rI, rDirectory, rResults, rStatus, rLog, rSink,
                   rSaves, exceptRun>>

\* A step 3 that saves whatever the extraction returned.
Store_SaveAlways ==
    /\ rpc = "store"
    /\ LET diocese == rDioceses[rI]
       IN \E outcomes \in [1..((Len(rResult.parishes) + batch_size - 1)
                                \div batch_size) -> BatchOutcomes] :
             LET saved == save_parishes_to_database(rResult.parishes,
                              <<diocese.url, rDirectory, rResult.site_type>>,
                              "client", outcomes)
             IN /\ rResult' = [rResult EXCEPT !.saved_count = saved.saved_count]
                /\ rSink' = rSink \o StoredRows(saved.inserts, outcomes, 1)
                /\ rSaves' = Append(rSaves,
                       [diocese |-> rI, success |-> rResult.success,
                        records |-> Len(rResult.parishes),
                        saved_count |-> saved.saved_count])
                /\ rStatus' = Append(rStatus,
                       update_directory_status(diocese.url, rDirectory, rResult.success,
                           IF rResult.success THEN "ai_analysis"
                           ELSE "extraction_failed"))
    /\ rpc' = "return"
    /\ UNCHANGED <<rTable, rDioceses, rI, rDirectory, rExc, rResults, rLog, exceptRun>>

\* Step 3: a successful result is saved with result.site_type.value as the
\* extraction method and the status is updated with True; a failed one only
\* updates the status with False. The result is returned.
Store ==
    /\ rpc = "store"
    /\ LET diocese == rDioceses[rI]
       IN IF rResult.success
          THEN \E outcomes \in [1..((Len(rResult.parishes) + batch_size - 1)
                                     \div batch_size) -> BatchOutcomes] :
                  LET saved == save_parishes_to_database(rResult.parishes,
                                   <<diocese.url, rDirectory, rResult.site_type>>,
                                   "client", outcomes)
                  IN /\ rResult' = [rResult EXCEPT !.saved_count = saved.saved_count]
                     /\ rSink' = rSink \o StoredRows(saved.inserts, outcomes, 1)
                     /\ rSaves' = Append(rSaves,
                            [diocese |-> rI, success |-> rResult.success,
                             records |-> Len(rResult.parishes),
                             saved_count |-> saved.saved_count])
                     /\ rStatus' = Append(rStatus,
                            update_directory_status(diocese.url, rDirectory, TRUE,
                                                    "ai_analysis"))
          ELSE /\ rStatus' = Append(rStatus,
                      update_directory_status(diocese.url, rDirectory, FALSE,
                                              "extraction_failed"))
               /\ UNCHANGED <<rResult, rSink, rSaves>>
    /\ rpc' = "return"
    /\ UNCHANGED <<rTable, rDioceses, rI, rDirectory, rExc, rResults, rLog, exceptRun>>

\* except Exception as e: the failure outcome "Pipeline error: ...".
PipelineError ==
    /\ rpc = "except"
    /\ rResult' = ExtractionResult(rDioceses[rI], "", <<>>, GENERIC, FALSE,
                                   <<"Pipeline error: " \o rExc>>)
    /\ rpc' = "return"
    /\ UNCHANGED <<rTable, rDioceses, rI, rDirectory, rExc, rResults, rStatus, rLog,
                   rSink, rSaves, exceptRun>>

\* A loop that leaves at the first failed outcome.
AppendResult_StopOnFailure ==
    /\ rpc = "return"
    /\ rResults' = Append(rResults, rResult)
    /\ rLog' = Append(rLog, <<"end", rI>>)
    /\ rpc' = IF rI < Len(rDioceses) /\ rResult.success THEN "sleep" ELSE "summary"
    /\ UNCHANGED <<rTable, rDioceses, rI, rDirectory, rResult, rExc, rStatus, rSink, rSaves, exceptRun>>

\* A loop that waits after every diocese, the last one included.
AppendResult_AlwaysWait ==
    /\ rpc = "return"
    /\ rResults' = Append(rResults, rResult)
    /\ rLog' = Append(rLog, <<"end", rI>>)
    /\ rpc' = "sleep"
    /\ UNCHANGED <<rTable, rDioceses, rI, rDirectory, rResult, rExc, rStatus, rSink, rSaves, exceptRun>>

\* results.append(result); a wait follows unless this was the last diocese.
AppendResult ==
    /\ rpc = "return"
    /\ rResults' = Append(rResults, rResult)
    /\ rLog' = Append(rLog, <<"end", rI>>)
    /\ rpc' = IF rI < Len(rDioceses) THEN "sleep" ELSE "summary"
    /\ UNCHANGED <<rTable, rDioceses, rI, rDirectory, rResult, rExc, rStatus, rSink, rSaves, exceptRun>>

\* time.sleep(self.config.request_delay), then the next diocese.
Sleep ==
    /\ rpc = "sleep"
    /\ rLog' = Append(rLog, <<"sleep", rI>>)
    /\ IF rI < Len(rDioceses)
       THEN rI' = rI + 1 /\ rpc' = "find"
       ELSE rpc' = "summary" /\ UNCHANGED rI
    /\ rDirectory' = None /\ rExc' = None
    /\ UNCHANGED <<rTable, rDioceses, rResult, rResults, rStatus, rSink, rSaves, exceptRun>>

\* self.print_summary(results); return results
Summary ==
    /\ rpc = "summary"
    /\ rpc' = "done"
    /\ UNCHANGED <<rTable, rDioceses, rI, rDirectory, rResult, rExc, rResults, rStatus,
                   rLog, rSink, rSaves, exceptRun>>

\* ------------------------------- extract, with a candidate that raises
\* The strategies hold no try block: an exception raised while one candidate
\* is processed leaves the loop and extract. The outcome of extract is the
\* exception when the loop reaches such a candidate, else the list.
Raised == [raised |-> TRUE, parishes |-> <<>>]

Returned(parishes) == [raised |-> FALSE, parishes |-> parishes]

Reaches(candidates, faulty) == \E i \in 1..Len(candidates) : candidates[i] = faulty

\* The data rows the Table strategy hands to _extract_parish_from_row.
table_data_rows(soup) ==
    LET tables == find_all(soup, LAMBDA e : e.tag = "table")
        considered == SelectSeq(tables, LAMBDA t :
                          AnyTermIn(table_extract_keywords, lower(get_text(t))))
        data_rows(table) == LET rows == find_all(table, LAMBDA e : e.tag = "tr")
                            IN IF Len(rows) > 1 THEN Tail(rows) ELSE rows
    IN Concat([i \in 1..Len(considered) |-> data_rows(considered[i])])

\* The elements the selector loop of the Generic strategy hands to
\* _extract_parish_from_element, from the i-th selector on.
RECURSIVE generic_visited(_, _)
generic_visited(selections, i) ==
    IF i > Len(selections) THEN <<>>
    ELSE LET elements == selections[i]
             first == SubSeq(elements, 1,
                             IF Len(elements) < GenericElementLimit
                             THEN Len(elements) ELSE GenericElementLimit)
         IN IF Len(CollectFrom(first, extract_parish_from_element)) > 0 THEN first
            ELSE first \o generic_visited(selections, i + 1)

\* Candidates on which the processing may raise; NoTag stands for none.
FaultyNodes ==
    {NoTag, SiteMary, CardHoly, ArticleGrace, ParishDiv,
     find_all(TableJoseph, LAMBDA e : e.tag = "tr")[2]}

IdleFault ==
    /\ fSoup = Soup(<<>>) /\ fStrategy = "generic" /\ fFaulty = NoTag
    /\ fOutcome = Returned(<<>>) /\ fpc = "idle"

InitFault ==
    /\ fSoup \in Documents
    /\ fStrategy \in Strategies
    /\ fFaulty \in FaultyNodes
    /\ fOutcome = Returned(<<>>)
    /\ fpc = "call"

FaultyParishFinder ==
    /\ fpc = "call" /\ fStrategy = "parish_finder"
    /\ fOutcome' = IF Reaches(find_all(fSoup, IsSiteItem), fFaulty) THEN Raised
                   ELSE Returned(ParishFinderExtractor_extract(fSoup))
    /\ fpc' = "return"
    /\ UNCHANGED <<fSoup, fStrategy, fFaulty, exceptFault>>

FaultyCardLayout ==
    /\ fpc = "call" /\ fStrategy = "card_layout"
    /\ fOutcome' = IF Reaches(FirstNonEmpty(card_selectors(fSoup)), fFaulty) THEN Raised
                   ELSE Returned(CardLayoutExtractor_extract(fSoup))
    /\ fpc' = "return"
    /\ UNCHANGED <<fSoup, fStrategy, fFaulty, exceptFault>>

FaultyTable ==
    /\ fpc = "call" /\ fStrategy = "table"
    /\ fOutcome' = IF Reaches(table_data_rows(fSoup), fFaulty) THEN Raised
                   ELSE Returned(TableExtractor_extract(fSoup))
    /\ fpc' = "return"
    /\ UNCHANGED <<fSoup, fStrategy, fFaulty, exceptFault>>

FaultyGeneric ==
    /\ fpc = "call" /\ fStrategy = "generic"
    /\ fOutcome' = IF Reaches(generic_visited(generic_selectors(fSoup), 1), fFaulty)
                   THEN Raised
                   ELSE Returned(GenericExtractor_extract(fSoup))
    /\ fpc' = "return"
    /\ UNCHANGED <<fSoup, fStrategy, fFaulty, exceptFault>>

\* ------------------------------------------- analyze_with_ai (ai_analysis.py)
\* int() of a run of decimal digits.
DigitValue(c) == CHOOSE n \in 0..9 : Ch("0123456789", n + 1) = c

RECURSIVE int(_)
int(s) == IF s = "" THEN 0
          ELSE 10 * int(SubSeq(s, 1, Len(s) - 1)) + DigitValue(Ch(s, Len(s)))

\* group(1) of re.search(r'(\d+)', text): the first maximal run of digits,
\* None when the text holds no digit.
first_digits(text) ==
    IF ~HasDigit(text) THEN None
    ELSE LET start == CHOOSE i \in 1..Len(text) :
                          /\ Ch(text, i) \in Digits
                          /\ \A j \in 1..(i - 1) : Ch(text, j) \notin Digits
             stop == CHOOSE k \in start..Len(text) :
                          /\ AllIn(SubSeq(text, start, k), Digits)
                          /\ Ch(text, k + 1) \notin Digits
         IN SubSeq(text, start, stop)

min(a, b) == IF a < b THEN a ELSE b

max(a, b) == IF a > b THEN a ELSE b

mock_responses ==
    << <<"parish_directory",
         << <<"score", 7>>,
            <<"reasoning", "Mock response - likely parish directory">> >> >>,
       <<"parish_info", "{\"name\": \"Sample Parish\", \"city\": \"Sample City\"}">> >>

prompt_types == {"parish_directory", "parish_info"}

\* What model.generate_content(...) and response.text give: an exception or
\* the text of the answer.
ReplyRaises == [raises |-> TRUE, text |-> ""]

ReplyText(text) == [raises |-> FALSE, text |-> text]

\* The dict or string analyze_with_ai returns once get_config() has handed it
\* the configuration. A query type without a prompt raises KeyError inside
\* the try block.
analyze_with_ai(genai_enabled, query_type, reply) ==
    IF ~genai_enabled
    THEN IF HasKey(mock_responses, query_type) THEN Item(mock_responses, query_type)
         ELSE << <<"score", 0>> >>
    ELSE IF query_type \notin prompt_types \/ reply.raises
         THEN IF query_type = "parish_directory" THEN << <<"score", 0>> >> ELSE "{}"
         ELSE IF query_type = "parish_directory"
              THEN LET score_match == first_digits(reply.text)
                       score == IF score_match # None THEN int(score_match) ELSE 0
                   IN << <<"score", min(max(score, 0), 10)>> >>
              ELSE reply.text

\* Answers of the language model: an optional lead, an optional number and
\* an optional tail.
ReplyLeads == {"", "Score: ", "-", "I'd say "}

ReplyNumbers == {"", "0", "7", "10", "15", "007", "123"}

ReplyTails == {"", "/10", " out of 10", "."}

Replies ==
    {ReplyRaises} \cup
    {ReplyText(lead \o number \o tail) :
        lead \in ReplyLeads, number \in ReplyNumbers, tail \in ReplyTails}

QueryTypes == {"parish_directory", "parish_info", "parish_schedule"}

\* stop_after_attempt(3) of the retry decorator.
retry_attempts == 3

\* The global _config of config/settings.py is None until set_config is
\* called; get_config() raises RuntimeError then.
IdleAi ==
    /\ aConfigSet = FALSE /\ aEnabled = FALSE /\ aQuery = "parish_directory"
    /\ aReply = ReplyRaises /\ aAttempts = 0 /\ aResult = None /\ apc = "idle"

InitAi ==
    /\ aConfigSet \in BOOLEAN
    /\ aEnabled \in BOOLEAN
    /\ aConfigSet = FALSE => aEnabled = FALSE
    /\ aQuery \in QueryTypes
    /\ aReply \in Replies
    /\ aAttempts = 0
    /\ aResult = None
    /\ apc = "call"

\* One attempt of the decorated function: get_config() raises outside the
\* try block and the decorator tries again, raising RetryError after the
\* third attempt; with a configuration the function returns.
AnalyzeWithAi ==
    /\ apc = "call"
    /\ IF ~aConfigSet
       THEN /\ aAttempts' = aAttempts + 1
            /\ apc' = IF aAttempts + 1 >= retry_attempts THEN "raised" ELSE "call"
            /\ aResult' = IF aAttempts + 1 >= retry_attempts THEN "RetryError" ELSE None
       ELSE /\ aAttempts' = aAttempts + 1
            /\ aResult' = analyze_with_ai(aEnabled, aQuery, aReply)
            /\ apc' = "return"
    /\ UNCHANGED <<aConfigSet, aEnabled, aQuery, aReply, exceptAi>>

\* ------------------------------------------- CardLayoutExtractor, applied
\* Cards of the shape of tests/test_extractors.py: a div.col-lg.location
\* around a link of class card that holds a heading and a card-body block.
\* The parts: the heading's text, tag and class, whether the heading stands
\* inside the card-body block, the city line, whether a "Learn More" line
\* follows it, and whether the markup has a line break between elements.
CardParts ==
    [name : {"Holy Trinity Parish", "St. Ann Church", "Contact Us"},
     tag : {"h4", "h2"},
     titled : BOOLEAN,
     inside : BOOLEAN,
     city : {"Salt Lake City", "Ogden"},
     learn_more : BOOLEAN,
     breaks : BOOLEAN]

CardOf(parts) ==
    LET br == IF parts.breaks THEN <<Text("\n    ")>> ELSE <<>>
        heading == <<Leaf(parts.tag,
                          IF parts.titled THEN <<"card-title">> ELSE <<>>,
                          parts.name)>> \o br
        lines == <<Leaf("div", <<>>, parts.city)>> \o br
                 \o (IF parts.learn_more
                     THEN <<Leaf("div", <<>>, "Learn More")>> \o br ELSE <<>>)
        body == Elem("div", <<"card-body">>, None, <<>>,
                     br \o (IF parts.inside THEN heading ELSE <<>>) \o lines)
    IN Elem("div", <<"col-lg", "location">>, None, <<>>,
            br \o <<Elem("a", <<"card">>, None, <<>>,
                         br \o (IF parts.inside THEN <<>> ELSE heading)
                         \o <<body>> \o br)>> \o br)

\* The card of test_card_layout_extractor.
FixtureParts ==
    [name |-> "Holy Trinity Parish", tag |-> "h4", titled |-> TRUE,
     inside |-> FALSE, city |-> "Salt Lake City", learn_more |-> TRUE,
     breaks |-> TRUE]

IdleCard == lParts = FixtureParts /\ lParishes = <<>> /\ lpc = "idle"

InitCard == lParts \in CardParts /\ lParishes = <<>> /\ lpc = "call"

ExtractCard ==
    /\ lpc = "call"
    /\ lParishes' = CardLayoutExtractor_extract(Soup(<<CardOf(lParts)>>))
    /\ lpc' = "return"
    /\ UNCHANGED <<lParts, exceptCard>>

\* ----------------------------------------- ParishFinderExtractor, applied
\* Finder items of the shape of tests/test_extractors.py, built from their
\* parts; a part that is None leaves its element or attribute out.
ItemParts ==
    [name : {None, "St. Mary Parish", "Contact Us"},
     city : {None, "Cleveland"},
     address : {None, "123 Main St, Cleveland, OH 44111"},
     phone : {None, "216.555.1234", "call the office"},
     href : {None, "https://stmary.org"},
     lat : {None, "41.123"},
     lng : {None, "-81.456"}]

\* Items that follow the first one on the page.
FollowingItems ==
    {[name |-> "St. Ann Church", city |-> "Akron", address |-> None,
      phone |-> "(330) 555-9876", href |-> "https://stann.org",
      lat |-> "41.081", lng |-> None],
     [name |-> "St. Mary Parish", city |-> "Parma", address |-> None,
      phone |-> None, href |-> None, lat |-> None, lng |-> None],
     [name |-> None, city |-> "Akron", address |-> "5 Oak Ave, Akron, OH 44301",
      phone |-> "(330) 555-9876", href |-> "https://stann.org",
      lat |-> "41.081", lng |-> "-81.519"],
     [name |-> "Staff Directory", city |-> "Akron", address |-> None,
      phone |-> None, href |-> "https://stann.org", lat |-> None, lng |-> None]}

Opt(part, node) == IF part = None THEN <<>> ELSE <<node>>

ItemOf(parts) ==
    LET title == Elem("div", <<"title">>, None, <<>>,
                      Opt(parts.address, Leaf("div", <<"address">>, parts.address))
                      \o Opt(parts.phone,
                             Elem("div", <<"phoneFaxHolder">>, None, <<>>,
                                  <<Leaf("span", <<"phone">>, parts.phone)>>)))
        links == Elem("div", <<"linkContainer">>, None, <<>>,
                      <<Elem("a", <<"urlLink">>, None, << <<"href", parts.href>> >>,
                             <<Text("Website")>>)>>)
        has_title == parts.address # None \/ parts.phone # None
        main == Elem("div", <<"main">>, None, <<>>,
                     (IF has_title THEN <<title>> ELSE <<>>) \o Opt(parts.href, links))
    IN Elem("li", <<"site">>, None,
            Opt(parts.lat, <<"data-latitude", parts.lat>>)
            \o Opt(parts.lng, <<"data-longitude", parts.lng>>),
            Opt(parts.name, Leaf("div", <<"name">>, parts.name))
            \o Opt(parts.city, Leaf("div", <<"city">>, parts.city))
            \o (IF has_title \/ parts.href # None
                THEN <<Elem("div", <<"siteInfo">>, None, <<>>, <<main>>)>> ELSE <<>>))

IdleItems == iParts = <<>> /\ iParishes = <<>> /\ ipc = "idle"

InitItems ==
    /\ iParts \in {<<first>> : first \in ItemParts}
                  \cup {<<first, next>> : first \in ItemParts, next \in FollowingItems}
    /\ iParishes = <<>>
    /\ ipc = "call"

ExtractItems ==
    /\ ipc = "call"
    /\ iParishes' = ParishFinderExtractor_extract(
                        Soup(<<Elem("ul", <<>>, None, <<>>,
                                    [k \in 1..Len(iParts) |-> ItemOf(iParts[k])])>>))
    /\ ipc' = "return"
    /\ UNCHANGED <<iParts, exceptItems>>

\* ------------------------------------------------ TableExtractor, applied
\* Tables built from the first-cell texts of their rows; every row has a
\* second cell with a city, the cells of the first row are th or td.
RowNames == {"Parish Name", "St. Joseph Church", "Holy Cross Parish", "Mass Times"}

RowLists == UNION {[1..n -> RowNames] : n \in 0..MaxRows}

TableOf(names, head_tag) ==
    Elem("table", <<>>, None, <<>>,
         [k \in 1..Len(names) |->
             Elem("tr", <<>>, None, <<>>,
                  << Leaf(IF k = 1 THEN head_tag ELSE "td", <<>>, names[k]),
                     Leaf(IF k = 1 THEN head_tag ELSE "td", <<>>, "Denver") >>)])

IdleRows == hNames = <<>> /\ hTag = "th" /\ hParishes = <<>> /\ hpc = "idle"

InitRows ==
    /\ hNames \in RowLists
    /\ hTag \in {"th", "td"}
    /\ hParishes = <<>>
    /\ hpc = "call"

ExtractRows ==
    /\ hpc = "call"
    /\ hParishes' = TableExtractor_extract(Soup(<<TableOf(hNames, hTag)>>))
    /\ hpc' = "return"
    /\ UNCHANGED <<hNames, hTag, exceptRows>>

\* ---------------------------------------------- GenericExtractor, applied
\* Documents built from groups of containers. A group is a run of n
\* containers of one kind, each with an h3 heading; the heading of the first,
\* of the last or of none of them is a valid parish name.
ContainerKinds ==
    {"class-parish", "class-church", "article", "entry", "id-parish", "post"}

\* One more container than elements[:15] reads.
OverLimit == GenericElementLimit + 1

ContainerGroups ==
    [kind : ContainerKinds, n : {1, OverLimit}, valid : {"none", "first", "last"}]

\* The heading of the k-th container of the j-th group.
ContainerName(group, j, k) ==
    IF (group.valid = "first" /\ k = 1) \/ (group.valid = "last" /\ k = group.n)
    THEN "St. Luke Parish " \o Numerals[j + 1] \o "-"
         \o Numerals[(k \div 10) + 1] \o Numerals[(k % 10) + 1]
    ELSE "Upcoming Events"

ContainerOf(group, j, k) ==
    LET heading == <<Leaf("h3", <<>>, ContainerName(group, j, k))>>
    IN CASE group.kind = "class-parish" ->
              Elem("div", <<"parish-item">>, None, <<>>, heading)
         [] group.kind = "class-church" ->
              Elem("div", <<"church-box">>, None, <<>>, heading)
         [] group.kind = "article" -> Elem("article", <<>>, None, <<>>, heading)
         [] group.kind = "entry" -> Elem("div", <<"entry">>, None, <<>>, heading)
         [] group.kind = "id-parish" ->
              Elem("div", <<>>, "parishes-" \o Numerals[j + 1], <<>>, heading)
         [] group.kind = "post" -> Elem("div", <<"post">>, None, <<>>, heading)

DocumentOf(groups) ==
    Soup(Concat([j \in 1..Len(groups) |->
                    [k \in 1..groups[j].n |-> ContainerOf(groups[j], j, k)]]))

IdleSelect == qGroups = <<>> /\ qParishes = <<>> /\ qpc = "idle"

InitSelect ==
    /\ qGroups \in {<<>>} \cup {<<g>> : g \in ContainerGroups}
                   \cup {<<g, h>> : g \in ContainerGroups, h \in ContainerGroups}
    /\ qParishes = <<>>
    /\ qpc = "call"

ExtractSelect ==
    /\ qpc = "call"
    /\ qParishes' = GenericExtractor_extract(DocumentOf(qGroups))
    /\ qpc' = "return"
    /\ UNCHANGED <<qGroups, exceptSelect>>

\* --------------------------------------------- the two address tests, applied
\* Text lines built from a house number, a street name, a suffix and a tail.
AddressLines ==
    {number \o street \o suffix \o tail :
        number \in {"", "12 "},
        street \in {"Oak ", "N Main "},
        suffix \in {"St", "street", "Ave", "AVENUE", "Rd", "Road", "Dr", "drive",
                    "Ln", "Lane", "Blvd", "Boulevard", "Way", "Circle", "Court",
                    "Ct", "Trail", "Streets", "Parkway"},
        tail \in {"", ", Akron", " Apt 4"}}

IdleAddress == wLine = "" /\ wGeneric = None /\ wTable = FALSE /\ wpc = "idle"

InitAddress == wLine \in AddressLines /\ wGeneric = None /\ wTable = FALSE /\ wpc = "call"

\* GenericExtractor._extract_address_from_element on an element holding the
\* line, and TableExtractor._looks_like_address on the line.
TestAddress ==
    /\ wpc = "call"
    /\ wGeneric' = extract_address_from_element(Leaf("div", <<>>, wLine))
    /\ wTable' = looks_like_address(wLine)
    /\ wpc' = "return"
    /\ UNCHANGED <<wLine, exceptAddress>>

\* ------------------------------------------ _extract_city_from_card, applied
\* Cards with a heading and, optionally, a card-body block whose text is a
\* list of lines.
LongLine(n) == SubSeq("North Saint Bartholomew on the Hudson River, Newfoundland", 1, n)

\* The length at which a second line stops being taken as the city.
CityLineLimit == 50

BodyLines ==
    {"", "   ", "Holy Trinity Parish", "  Ogden ", "Salt  Lake City", "Learn More",
     "Learn More about us", "learn more",
     LongLine(CityLineLimit - 1), LongLine(CityLineLimit), LongLine(CityLineLimit + 1)}

BodyTexts == UNION {[1..n -> BodyLines] : n \in 0..MaxLines}

RECURSIVE JoinLines(_)
JoinLines(lines) ==
    IF Len(lines) = 0 THEN ""
    ELSE IF Len(lines) = 1 THEN lines[1]
    ELSE lines[1] \o "\n" \o JoinLines(Tail(lines))

BodyCard(has_body, lines) ==
    Elem("div", <<"card">>, None, <<>>,
         <<Leaf("h4", <<"card-title">>, "Holy Trinity Parish")>>
         \o (IF has_body THEN <<Leaf("div", <<"card-body">>, JoinLines(lines))>>
             ELSE <<Leaf("div", <<"card-text">>, JoinLines(lines))>>))

IdleCity == yBody = FALSE /\ yLines = <<>> /\ yCity = None /\ ypc = "idle"

InitCity == yBody \in BOOLEAN /\ yLines \in BodyTexts /\ yCity = None /\ ypc = "call"

ExtractCity ==
    /\ ypc = "call"
    /\ yCity' = extract_city_from_card(BodyCard(yBody, yLines))
    /\ ypc' = "return"
    /\ UNCHANGED <<yBody, yLines, exceptCity>>

\* ------------------------------- _evaluate_candidates_with_ai (pipeline.py)
\* candidates[:5]
CandidateLimit == 5

\* What analyze_with_ai(link_info, "parish_directory") does for a candidate:
\* it raises, or it returns a dict with a score.
ScoringRaises == [raises |-> TRUE, analysis |-> <<>>]

ScoringReturns(score) == [raises |-> FALSE, analysis |-> << <<"score", score>> >>]

\* analysis.get('score', 0)
dict_get(d, key, default) == IF HasKey(d, key) THEN Item(d, key) ELSE default

\* A loop that takes a later candidate with the same score.
RECURSIVE evaluate_loop_LastBest(_, _, _, _, _, _)
evaluate_loop_LastBest(candidates, scoring, threshold, i, best_url, best_score) ==
    IF i > Len(candidates) \/ i > CandidateLimit THEN best_url
    ELSE IF scoring[i].raises
    THEN evaluate_loop_LastBest(candidates, scoring, threshold, i + 1, best_url, best_score)
    ELSE LET score == dict_get(scoring[i].analysis, "score", 0)
         IN IF score >= best_score /\ score >= threshold
            THEN evaluate_loop_LastBest(candidates, scoring, threshold, i + 1,
                                        candidates[i].url, score)
            ELSE evaluate_loop_LastBest(candidates, scoring, threshold, i + 1,
                                        best_url, best_score)

\* The loop over candidates[:5] from the i-th candidate on.
RECURSIVE evaluate_loop(_, _, _, _, _, _)
evaluate_loop(candidates, scoring, threshold, i, best_url, best_score) ==
    IF i > Len(candidates) \/ i > CandidateLimit THEN best_url
    ELSE IF scoring[i].raises
    THEN evaluate_loop(candidates, scoring, threshold, i + 1, best_url, best_score)
    ELSE LET score == dict_get(scoring[i].analysis, "score", 0)
         IN IF score > best_score /\ score >= threshold
            THEN evaluate_loop(candidates, scoring, threshold, i + 1,
                               candidates[i].url, score)
            ELSE evaluate_loop(candidates, scoring, threshold, i + 1,
                               best_url, best_score)

evaluate_candidates_with_ai(candidates, scoring, threshold) ==
    evaluate_loop(candidates, scoring, threshold, 1, None, 0)

\* The k-th candidate link of a page.
Candidate(k) ==
    [url |-> "https://diocese.org/link-" \o Numerals[k + 1],
     text |-> "Parishes " \o Numerals[k + 1]]

Scorings == {ScoringRaises} \cup {ScoringReturns(score) : score \in {0, 6, 7, 9}}

\* config.ai_confidence_threshold: the default and a threshold of zero.
Thresholds == {0, 7}

IdleEvaluate ==
    /\ eScoring = <<>> /\ eThreshold = 7 /\ eBest = None /\ epc = "idle"

InitEvaluate ==
    /\ eScoring \in UNION {[1..n -> Scorings] : n \in 0..MaxCandidates}
    /\ eThreshold \in Thresholds
    /\ eBest = None
    /\ epc = "call"

EvaluateCandidates ==
    /\ epc = "call"
    /\ eBest' = evaluate_candidates_with_ai([k \in 1..Len(eScoring) |-> Candidate(k)],
                                            eScoring, eThreshold)
    /\ epc' = "return"
    /\ UNCHANGED <<eScoring, eThreshold, exceptEvaluate>>

\* ------------------------------------ browser sessions (pipeline.py, webdriver.py)
\* setup_driver(): installing the driver or starting Chrome raises and no
\* session exists; Chrome is started and set_page_load_timeout or
\* implicitly_wait raises, the session staying open; or the driver is
\* returned.
SetupOutcomes ==
    {"install_raises", "chrome_raises", "timeout_raises", "wait_raises", "returns"}

SessionStarted(outcome) == outcome \in {"timeout_raises", "wait_raises", "returns"}

\* What the try block of find_parish_directory does: load_page raises, no
\* directory is found, or a directory URL is returned.
FindOutcomes == {"raises", "none", "url"}

\* What the try block of extract_parishes_from_directory does: an exception
\* (caught by except Exception), or a result without or with records.
ExtractOutcomes == {"raises", "failed", "success"}

IdleBrowser ==
    /\ bpc = "idle" /\ bI = 0 /\ bN = 0 /\ bOpen = {} /\ bOpened = 0
    /\ bDriver = 0 /\ bOutcome = "none" /\ bLeft = {}

\* run_full_extraction over 1..MaxDioceses dioceses, before the first one.
InitBrowser ==
    /\ bpc = "find_setup" /\ bI = 1 /\ bN \in 1..MaxDioceses /\ bOpen = {}
    /\ bOpened = 0 /\ bDriver = 0 /\ bOutcome = "none" /\ bLeft = {}

\* driver = setup_driver() in find_parish_directory or in
\* extract_parishes_from_directory; the call stands before the try block, so
\* its exception leaves the method.
SetupSession ==
    /\ bpc \in {"find_setup", "extract_setup"}
    /\ \E outcome \in SetupOutcomes :
          /\ IF SessionStarted(outcome)
             THEN bOpen' = bOpen \cup {bOpened + 1} /\ bOpened' = bOpened + 1
             ELSE UNCHANGED <<bOpen, bOpened>>
          /\ IF outcome = "returns"
             THEN /\ bDriver' = bOpened + 1
                  /\ bpc' = IF bpc = "find_setup" THEN "find_body" ELSE "extract_body"
                  /\ UNCHANGED <<bOutcome, bLeft>>
             ELSE /\ bDriver' = 0
                  /\ bOutcome' = outcome
                  /\ bLeft' = IF SessionStarted(outcome) THEN bLeft \cup {bOpened + 1}
                              ELSE bLeft
                  /\ bpc' = "except"
    /\ UNCHANGED <<bI, bN, exceptBrowser>>

\* The try block of find_parish_directory.
FindBody ==
    /\ bpc = "find_body"
    /\ bOutcome' \in FindOutcomes
    /\ bpc' = "find_finally"
    /\ UNCHANGED <<bI, bN, bOpen, bOpened, bDriver, bLeft, exceptBrowser>>

\* The try block of extract_parishes_from_directory with its except clause.
ExtractBody ==
    /\ bpc = "extract_body"
    /\ bOutcome' \in ExtractOutcomes
    /\ bpc' = "extract_finally"
    /\ UNCHANGED <<bI, bN, bOpen, bOpened, bDriver, bLeft, exceptBrowser>>

\* finally: driver.quit(), then the method returns or raises.
QuitSession ==
    /\ bpc \in {"find_finally", "extract_finally"}
    /\ bOpen' = bOpen \ {bDriver}
    /\ bDriver' = 0
    /\ bpc' = IF bpc = "extract_finally" THEN "store"
              ELSE CASE bOutcome = "raises" -> "except"
                     [] bOutcome = "none" -> "return"
                     [] bOutcome = "url" -> "extract_setup"
    /\ UNCHANGED <<bI, bN, bOpened, bOutcome, bLeft, exceptBrowser>>

\* Saving and the status update of process_single_diocese, or its except
\* clause: no browser is used.
StoreOrExcept ==
    /\ bpc \in {"store", "except"}
    /\ bpc' = "return"
    /\ UNCHANGED <<bI, bN, bOpen, bOpened, bDriver, bOutcome, bLeft, exceptBrowser>>

\* process_single_diocese has returned: the next diocese, or the end.
NextDiocese ==
    /\ bpc = "return"
    /\ IF bI < bN THEN bI' = bI + 1 /\ bpc' = "find_setup"
       ELSE bpc' = "done" /\ UNCHANGED bI
    /\ bOutcome' = "none"
    /\ UNCHANGED <<bN, bOpen, bOpened, bDriver, bLeft, exceptBrowser>>

\* -------------------------------------------------------- specifications
\* One specification per operation: its variables start at the call, the
\* variables of the other operations stay idle.
InitSpecValidate ==
    /\ InitValidate /\ IdleDedup /\ IdleCoords /\ IdleClassify /\ IdleExtract
    /\ IdleDispatch /\ IdlePipeline /\ IdleToDict /\ IdleSave /\ IdleRun
    /\ IdleFault /\ IdleAi /\ IdleCard /\ IdleItems /\ IdleRows /\ IdleSelect
    /\ IdleAddress /\ IdleCity /\ IdleEvaluate /\ IdleBrowser

NextValidate == Validate

SpecValidate == InitSpecValidate /\ [][NextValidate]_vars

InitSpecDedup ==
    /\ InitDedup /\ IdleValidate /\ IdleCoords /\ IdleClassify /\ IdleExtract
    /\ IdleDispatch /\ IdlePipeline /\ IdleToDict /\ IdleSave /\ IdleRun
    /\ IdleFault /\ IdleAi /\ IdleCard /\ IdleItems /\ IdleRows /\ IdleSelect
    /\ IdleAddress /\ IdleCity /\ IdleEvaluate /\ IdleBrowser

NextDedup == Dedup \/ DedupAgain

SpecDedup == InitSpecDedup /\ [][NextDedup]_vars

InitSpecCoords ==
    /\ InitCoords /\ IdleValidate /\ IdleDedup /\ IdleClassify /\ IdleExtract
    /\ IdleDispatch /\ IdlePipeline /\ IdleToDict /\ IdleSave /\ IdleRun
    /\ IdleFault /\ IdleAi /\ IdleCard /\ IdleItems /\ IdleRows /\ IdleSelect
    /\ IdleAddress /\ IdleCity /\ IdleEvaluate /\ IdleBrowser

NextCoords == ExtractCoordinates

SpecCoords == InitSpecCoords /\ [][NextCoords]_vars

InitSpecClassify ==
    /\ InitClassify /\ IdleValidate /\ IdleDedup /\ IdleCoords /\ IdleExtract
    /\ IdleDispatch /\ IdlePipeline /\ IdleToDict /\ IdleSave /\ IdleRun
    /\ IdleFault /\ IdleAi /\ IdleCard /\ IdleItems /\ IdleRows /\ IdleSelect
    /\ IdleAddress /\ IdleCity /\ IdleEvaluate /\ IdleBrowser

NextClassify == DetectSiteType

SpecClassify == InitSpecClassify /\ [][NextClassify]_vars

InitSpecExtract ==
    /\ InitExtract /\ IdleValidate /\ IdleDedup /\ IdleCoords /\ IdleClassify
    /\ IdleDispatch /\ IdlePipeline /\ IdleToDict /\ IdleSave /\ IdleRun
    /\ IdleFault /\ IdleAi /\ IdleCard /\ IdleItems /\ IdleRows /\ IdleSelect
    /\ IdleAddress /\ IdleCity /\ IdleEvaluate /\ IdleBrowser

NextExtract == ExtractParishFinder \/ ExtractCardLayout \/ ExtractTable \/ ExtractGeneric

SpecExtract == InitSpecExtract /\ [][NextExtract]_vars

InitSpecDispatch ==
    /\ InitDispatch /\ IdleValidate /\ IdleDedup /\ IdleCoords
    /\ IdleClassify /\ IdleExtract /\ IdlePipeline /\ IdleToDict /\ IdleSave
    /\ IdleRun /\ IdleFault /\ IdleAi /\ IdleCard /\ IdleItems /\ IdleRows
    /\ IdleSelect /\ IdleAddress /\ IdleCity /\ IdleEvaluate /\ IdleBrowser

NextDispatch == GetExtractor

SpecDispatch == InitSpecDispatch /\ [][NextDispatch]_vars

InitSpecPipeline ==
    /\ InitPipeline /\ IdleValidate /\ IdleDedup /\ IdleCoords
    /\ IdleClassify /\ IdleExtract /\ IdleDispatch /\ IdleToDict /\ IdleSave
    /\ IdleRun /\ IdleFault /\ IdleAi /\ IdleCard /\ IdleItems /\ IdleRows
    /\ IdleSelect /\ IdleAddress /\ IdleCity /\ IdleEvaluate /\ IdleBrowser

NextPipeline == SetupDriver \/ LoadPage \/ Detect \/ Extract \/ Except \/ Finally

SpecPipeline == InitSpecPipeline /\ [][NextPipeline]_vars

InitSpecToDict ==
    /\ InitToDict /\ IdleValidate /\ IdleDedup /\ IdleCoords /\ IdleClassify
    /\ IdleExtract /\ IdleDispatch /\ IdlePipeline /\ IdleSave /\ IdleRun
    /\ IdleFault /\ IdleAi /\ IdleCard /\ IdleItems /\ IdleRows /\ IdleSelect
    /\ IdleAddress /\ IdleCity /\ IdleEvaluate /\ IdleBrowser

NextToDict == ToDict

SpecToDict == InitSpecToDict /\ [][NextToDict]_vars

InitSpecSave ==
    /\ InitSave /\ IdleValidate /\ IdleDedup /\ IdleCoords /\ IdleClassify
    /\ IdleExtract /\ IdleDispatch /\ IdlePipeline /\ IdleToDict /\ IdleRun
    /\ IdleFault /\ IdleAi /\ IdleCard /\ IdleItems /\ IdleRows /\ IdleSelect
    /\ IdleAddress /\ IdleCity /\ IdleEvaluate /\ IdleBrowser

NextSave == SaveParishes

SpecSave == InitSpecSave /\ [][NextSave]_vars

InitSpecRun ==
    /\ InitRun /\ IdleValidate /\ IdleDedup /\ IdleCoords /\ IdleClassify
    /\ IdleExtract /\ IdleDispatch /\ IdlePipeline /\ IdleToDict /\ IdleSave
    /\ IdleFault /\ IdleAi /\ IdleCard /\ IdleItems /\ IdleRows /\ IdleSelect
    /\ IdleAddress /\ IdleCity /\ IdleEvaluate /\ IdleBrowser

NextRun == GetDioceses \/ FindDirectory \/ ExtractDirectory \/ Store \/ PipelineError
           \/ AppendResult \/ Sleep \/ Summary

SpecRun == InitSpecRun /\ [][NextRun]_vars

InitSpecFault ==
    /\ InitFault /\ IdleValidate /\ IdleDedup /\ IdleCoords /\ IdleClassify
    /\ IdleExtract /\ IdleDispatch /\ IdlePipeline /\ IdleToDict /\ IdleSave
    /\ IdleRun /\ IdleAi /\ IdleCard /\ IdleItems /\ IdleRows /\ IdleSelect
    /\ IdleAddress /\ IdleCity /\ IdleEvaluate /\ IdleBrowser

NextFault == FaultyParishFinder \/ FaultyCardLayout \/ FaultyTable \/ FaultyGeneric

SpecFault == InitSpecFault /\ [][NextFault]_vars

InitSpecAi ==
    /\ InitAi /\ IdleValidate /\ IdleDedup /\ IdleCoords /\ IdleClassify
    /\ IdleExtract /\ IdleDispatch /\ IdlePipeline /\ IdleToDict /\ IdleSave
    /\ IdleRun /\ IdleFault /\ IdleCard /\ IdleItems /\ IdleRows
    /\ IdleSelect /\ IdleAddress /\ IdleCity /\ IdleEvaluate /\ IdleBrowser

NextAi == AnalyzeWithAi

SpecAi == InitSpecAi /\ [][NextAi]_vars

InitSpecCard ==
    /\ InitCard /\ IdleValidate /\ IdleDedup /\ IdleCoords /\ IdleClassify
    /\ IdleExtract /\ IdleDispatch /\ IdlePipeline /\ IdleToDict /\ IdleSave
    /\ IdleRun /\ IdleFault /\ IdleAi /\ IdleItems /\ IdleRows /\ IdleSelect
    /\ IdleAddress /\ IdleCity /\ IdleEvaluate /\ IdleBrowser

NextCard == ExtractCard

SpecCard == InitSpecCard /\ [][NextCard]_vars

InitSpecItems ==
    /\ InitItems /\ IdleValidate /\ IdleDedup /\ IdleCoords /\ IdleClassify
    /\ IdleExtract /\ IdleDispatch /\ IdlePipeline /\ IdleToDict /\ IdleSave
    /\ IdleRun /\ IdleFault /\ IdleAi /\ IdleCard /\ IdleRows /\ IdleSelect
    /\ IdleAddress /\ IdleCity /\ IdleEvaluate /\ IdleBrowser

NextItems == ExtractItems

SpecItems == InitSpecItems /\ [][NextItems]_vars

InitSpecRows ==
    /\ InitRows /\ IdleValidate /\ IdleDedup /\ IdleCoords /\ IdleClassify
    /\ IdleExtract /\ IdleDispatch /\ IdlePipeline /\ IdleToDict /\ IdleSave
    /\ IdleRun /\ IdleFault /\ IdleAi /\ IdleCard /\ IdleItems /\ IdleSelect
    /\ IdleAddress /\ IdleCity /\ IdleEvaluate /\ IdleBrowser

NextRows == ExtractRows

SpecRows == InitSpecRows /\ [][NextRows]_vars

InitSpecSelect ==
    /\ InitSelect /\ IdleValidate /\ IdleDedup /\ IdleCoords /\ IdleClassify
    /\ IdleExtract /\ IdleDispatch /\ IdlePipeline /\ IdleToDict /\ IdleSave
    /\ IdleRun /\ IdleFault /\ IdleAi /\ IdleCard /\ IdleItems /\ IdleRows
    /\ IdleAddress /\ IdleCity /\ IdleEvaluate /\ IdleBrowser

NextSelect == ExtractSelect

SpecSelect == InitSpecSelect /\ [][NextSelect]_vars

InitSpecAddress ==
    /\ InitAddress /\ IdleValidate /\ IdleDedup /\ IdleCoords /\ IdleClassify
    /\ IdleExtract /\ IdleDispatch /\ IdlePipeline /\ IdleToDict /\ IdleSave
    /\ IdleRun /\ IdleFault /\ IdleAi /\ IdleCard /\ IdleItems /\ IdleRows
    /\ IdleSelect /\ IdleCity /\ IdleEvaluate /\ IdleBrowser

NextAddress == TestAddress

SpecAddress == InitSpecAddress /\ [][NextAddress]_vars

InitSpecCity ==
    /\ InitCity /\ IdleValidate /\ IdleDedup /\ IdleCoords /\ IdleClassify
    /\ IdleExtract /\ IdleDispatch /\ IdlePipeline /\ IdleToDict /\ IdleSave
    /\ IdleRun /\ IdleFault /\ IdleAi /\ IdleCard /\ IdleItems /\ IdleRows
    /\ IdleSelect /\ IdleAddress /\ IdleEvaluate /\ IdleBrowser

NextCity == ExtractCity

SpecCity == InitSpecCity /\ [][NextCity]_vars

InitSpecEvaluate ==
    /\ InitEvaluate /\ IdleValidate /\ IdleDedup /\ IdleCoords
    /\ IdleClassify /\ IdleExtract /\ IdleDispatch /\ IdlePipeline
    /\ IdleToDict /\ IdleSave /\ IdleRun /\ IdleFault /\ IdleAi /\ IdleCard
    /\ IdleItems /\ IdleRows /\ IdleSelect /\ IdleAddress /\ IdleCity
    /\ IdleBrowser

NextEvaluate == EvaluateCandidates

SpecEvaluate == InitSpecEvaluate /\ [][NextEvaluate]_vars

InitSpecBrowser ==
    /\ InitBrowser /\ IdleValidate /\ IdleDedup /\ IdleCoords /\ IdleClassify
    /\ IdleExtract /\ IdleDispatch /\ IdlePipeline /\ IdleToDict /\ IdleSave
    /\ IdleRun /\ IdleFault /\ IdleAi /\ IdleCard /\ IdleItems /\ IdleRows
    /\ IdleSelect /\ IdleAddress /\ IdleCity /\ IdleEvaluate

NextBrowser == SetupSession \/ FindBody \/ ExtractBody \/ QuitSession \/ StoreOrExcept
               \/ NextDiocese

SpecBrowser == InitSpecBrowser /\ [][NextBrowser]_vars

\* ------------------------------------------------------------------ claims
SkipTermSet == {"contact", "office", "directory", "finder", "search", "filter",
                "map", "diocese", "bishop", "center", "no parish registration"}

IndicatorSet == {"parish", "church", "st.", "saint", "our lady", "holy",
                 "cathedral", "chapel", "basilica", "shrine"}

HasSkipTerm(name) == \E t \in SkipTermSet : Contains(lower(name), t)

HasIndicator(name) == \E t \in IndicatorSet : Contains(lower(name), t)

\* C3: validate_parish_name(name) is true iff name is non-empty, its trimmed
\* length is at least 3, its lower-cased form contains no skip-term and it
\* contains at least one parish indicator; "Parish Directory", which holds
\* both an indicator and a skip-term, is rejected.
C3_ValidateIff ==
    vpc = "return" =>
        /\ vResult <=> ( /\ vName # None
                         /\ vName # ""
                         /\ Len(strip(vName)) >= 3
                         /\ ~HasSkipTerm(vName)
                         /\ HasIndicator(vName) )
        /\ (vName = "Parish Directory" => ~vResult)

\* A name with both an indicator and a skip-term has been validated.
C3_Witness ==
    /\ vpc = "return"
    /\ vName = "Parish Directory"
    /\ HasIndicator(vName) /\ HasSkipTerm(vName)
    /\ ~vResult

NameKey(p) == strip(lower(p.name))

\* q is a subsequence of s: an increasing choice of positions of s gives q.
RECURSIVE IsSubsequence(_, _)
IsSubsequence(q, s) ==
    IF Len(q) = 0 THEN TRUE
    ELSE IF Len(s) = 0 THEN FALSE
    ELSE IF Head(q) = Head(s) THEN IsSubsequence(Tail(q), Tail(s))
    ELSE IsSubsequence(q, Tail(s))

\* C4: the output of remove_duplicates is a subsequence of its input, holds
\* no two records with one lower-cased trimmed name, holds no record with an
\* invalid name, and for each valid name key keeps the first input record
\* with that key.
C4_StableFirstSeen ==
    dpc # "call" /\ dpc # "idle" =>
        /\ IsSubsequence(dOut, dIn)
        /\ \A i, j \in 1..Len(dOut) : i # j => NameKey(dOut[i]) # NameKey(dOut[j])
        /\ \A i \in 1..Len(dOut) : ~HasSkipTerm(dOut[i].name) /\ HasIndicator(dOut[i].name)
        /\ \A i \in 1..Len(dIn) :
              (~HasSkipTerm(dIn[i].name) /\ HasIndicator(dIn[i].name)
               /\ \A k \in 1..(i - 1) : NameKey(dIn[k]) # NameKey(dIn[i]))
              => \E j \in 1..Len(dOut) : dOut[j] = dIn[i]

\* A list with a later duplicate that differs from the kept record, and an
\* invalid name, has been de-duplicated.
C4_Witness ==
    /\ dpc = "once"
    /\ Len(dIn) = 3 /\ Len(dOut) = 1
    /\ NameKey(dIn[1]) = NameKey(dIn[3]) /\ dIn[1] # dIn[3]
    /\ HasSkipTerm(dIn[2].name)
    /\ dOut[1] = dIn[1]

\* C5: remove_duplicates(remove_duplicates(L)) = remove_duplicates(L).
C5_Idempotent == dpc = "twice" => dOut2 = dOut

\* The second pass ran on a list the first pass had shortened.
C5_Witness == dpc = "twice" /\ Len(dOut) >= 2 /\ Len(dOut) < Len(dIn)

\* C7: extract_coordinates never returns exactly one of the two coordinates.
C7_BothOrNeither ==
    cpc = "return" => ((cResult[1] = None) <=> (cResult[2] = None))

\* C8: extract_coordinates never returns the numeric value 0.0 for latitude
\* or longitude, whatever the attribute text is.
C8_NeverZero ==
    cpc = "return" => ~IsZeroFloat(cResult[1]) /\ ~IsZeroFloat(cResult[2])

\* Some element below the top-level nodes is a list item with class "site".
HasSiteItem(soup) ==
    \E i \in 1..Len(DescSeq(soup.kids)) :
        LET e == DescSeq(soup.kids)[i]
        IN e.tag = "li" /\ \E c \in 1..Len(e.cls) : e.cls[c] = "site"

\* C1: detect_site_type returns PARISH_FINDER if a finder indicator holds,
\* otherwise CARD_LAYOUT if a card indicator holds, otherwise TABLE if some
\* table's text holds parish/church/name/address, otherwise MAP if a map
\* indicator holds, otherwise GENERIC; a document with an li.site element is
\* PARISH_FINDER whatever else it holds.
C1_FirstMatchWins ==
    kpc = "return" =>
        /\ kType \in SiteType
        /\ (kType = PARISH_FINDER) <=> finder_indicators(kSoup, kUrl)
        /\ (kType = CARD_LAYOUT) <=>
              (~finder_indicators(kSoup, kUrl) /\ card_indicators(kSoup))
        /\ (kType = TABLE) <=>
              (~finder_indicators(kSoup, kUrl) /\ ~card_indicators(kSoup)
               /\ table_indicator(kSoup))
        /\ (kType = MAP) <=>
              (~finder_indicators(kSoup, kUrl) /\ ~card_indicators(kSoup)
               /\ ~table_indicator(kSoup) /\ map_indicators(kSoup))
        /\ HasSiteItem(kSoup) => kType = PARISH_FINDER

\* A document with a map marker and a site item was classified.
C1_Witness ==
    /\ kpc = "return"
    /\ kSoup = Soup(<<MapDiv, SiteContact>>)
    /\ kUrl = "https://diocese.org/parishes"
    /\ HasSiteItem(kSoup) /\ map_indicators(kSoup)
    /\ kType = PARISH_FINDER


\* C2: every record returned by a strategy's extract has a name the
\* plausibility validator accepts; none has a name holding a skip-term.
C2_NamesValidated ==
    xpc = "return" =>
        \A i \in 1..Len(xParishes) :
            /\ xParishes[i].name # ""
            /\ Len(strip(xParishes[i].name)) >= 3
            /\ ~HasSkipTerm(xParishes[i].name)
            /\ HasIndicator(xParishes[i].name)

\* The Generic strategy ran on a document whose first selector matches a
\* block headed "Parish Directory" and a block of a parish, and returned the
\* parish only.
C2_Witness ==
    /\ xpc = "return" /\ xStrategy = "generic"
    /\ xSoup = Soup(<<CardDirectory, ParishDiv>>)
    /\ Len(xParishes) = 1
    /\ xParishes[1].name = "Sacred Heart Chapel"

ConfidenceOf(strategy) ==
    CASE strategy = "parish_finder" -> 90
      [] strategy = "table" -> 85
      [] strategy = "card_layout" -> 80
      [] strategy = "generic" -> 40

\* C6: every record a strategy returns carries that strategy's fixed
\* confidence (0.9, 0.85, 0.8, 0.4 for ParishFinder, Table, CardLayout,
\* Generic) and the strategy's identifier as extraction_method.
C6_FixedConfidence ==
    xpc = "return" =>
        \A i \in 1..Len(xParishes) :
            /\ xParishes[i].confidence = ConfidenceOf(xStrategy)
            /\ xParishes[i].extraction_method = xStrategy

\* The Table strategy has returned a record.
C6_Witness ==
    /\ xpc = "return" /\ xStrategy = "table"
    /\ Len(xParishes) = 1
    /\ xParishes[1].name = "St. Joseph Church"
    /\ xParishes[1].confidence = 85


ClassOf(tag) ==
    CASE tag = "parish_finder" -> "ParishFinderExtractor"
      [] tag = "card_layout" -> "CardLayoutExtractor"
      [] tag = "table" -> "TableExtractor"
      [] OTHER -> "GenericExtractor"

\* C9: get_extractor returns, for every tag, a new instance: of the tag's
\* own strategy for parish_finder, card_layout, table and generic, and of the
\* Generic strategy for every other tag ("map" and unknown strings).
C9_DispatchTotal ==
    Len(gHeap) > 0 =>
        /\ gExtractor.class = ClassOf(gTag)
        /\ gExtractor = gHeap[Len(gHeap)]
        /\ \A i \in 1..(Len(gHeap) - 1) : gHeap[i] # gExtractor
        /\ \A i, j \in 1..Len(gHeap) : i # j => gHeap[i].id # gHeap[j].id

\* get_extractor("map") has returned a Generic strategy object after an
\* earlier call had returned another Generic strategy object.
C9_Witness ==
    /\ Len(gHeap) = 2
    /\ gTag = "map"
    /\ gHeap[1].class = "GenericExtractor"
    /\ gExtractor.class = "GenericExtractor"
    /\ gExtractor # gHeap[1]

\* C10: extract_parishes_from_directory never raises; when page loading,
\* classification or strategy execution raised, it returns an outcome with
\* no records, success = false and exactly one error string; when nothing
\* raised it returns the strategy's records with success = (records > 0)
\* and no error.
C10_NeverRaises ==
    /\ ppc # "raised"
    /\ pRaised = None
    /\ ppc = "returned" =>
          IF pExc # None
          THEN /\ pResult.parishes = <<>>
               /\ ~pResult.success
               /\ Len(pResult.errors) = 1
          ELSE /\ pResult.parishes = extract(get_extractor(pSiteType, <<>>), pSoup)
               /\ pResult.success = (Len(pResult.parishes) > 0)
               /\ pResult.errors = <<>>

\* The part of C10 that the code keeps: every return of the method follows
\* the two outcome shapes.
C10_ReturnedOutcome ==
    ppc = "returned" =>
        IF pExc # None
        THEN /\ pResult.parishes = <<>>
             /\ ~pResult.success
             /\ Len(pResult.errors) = 1
        ELSE /\ pResult.success = (Len(pResult.parishes) > 0)
             /\ pResult.errors = <<>>


\* The fields of a record that to_dict writes under a key when they hold a
\* value, as <<key, field value>>.
OptionalItems(parish) ==
    << <<"Name", parish.name>>, <<"City", parish.city>>,
       <<"Street Address", parish.address>>, <<"Phone Number", parish.phone>>,
       <<"Web", parish.website>>, <<"latitude", parish.latitude>>,
       <<"longitude", parish.longitude>>,
       <<"extraction_method", parish.extraction_method>> >>

\* C18: to_dict writes a key iff its field holds a value other than None and
\* "", never maps a key to None or "", and writes Name, confidence_score,
\* extraction_method and extracted_at for every record with a non-empty name.
C18_OmitsEmpty ==
    tpc = "return" =>
        /\ \A i \in 1..Len(OptionalItems(tParish)) :
              LET item == OptionalItems(tParish)[i]
              IN /\ HasKey(tDict, item[1]) <=> (item[2] # None /\ item[2] # "")
                 /\ HasKey(tDict, item[1]) => Item(tDict, item[1]) = item[2]
        /\ \A i \in 1..Len(tDict) :
              tDict[i][1] # "confidence_score" => tDict[i][2] # None /\ tDict[i][2] # ""
        /\ \A i, j \in 1..Len(tDict) : i # j => tDict[i][1] # tDict[j][1]
        /\ tParish.name # "" =>
              /\ HasKey(tDict, "Name") /\ HasKey(tDict, "confidence_score")
              /\ HasKey(tDict, "extraction_method") /\ HasKey(tDict, "extracted_at")
              /\ Item(tDict, "confidence_score") = tParish.confidence

\* A named record with an empty city, an empty website and no address has
\* been converted; none of the three keys is written.
C18_Witness ==
    /\ tpc = "return"
    /\ tParish.name = "St. Mary Parish" /\ tParish.city = "" /\ tParish.website = ""
    /\ tParish.address = None /\ tParish.latitude = "0.0"
    /\ ~HasKey(tDict, "City") /\ ~HasKey(tDict, "Web")
    /\ ~HasKey(tDict, "Street Address") /\ HasKey(tDict, "latitude")

\* The records of positions from..to of a list, by name.
NamesFrom(parishes, from, to) == [i \in 1..(to - from + 1) |-> parishes[from + i - 1].name]

\* The total size of the batches the sink stored.
RECURSIVE StoredSize(_, _, _)
StoredSize(inserts, outcomes, k) ==
    IF k > Len(inserts) THEN 0
    ELSE (IF outcomes[k] = "ok" THEN Len(inserts[k]) ELSE 0)
         + StoredSize(inserts, outcomes, k + 1)

C11_FailureExplained ==
    (rpc = "return" /\ ~rResult.success) =>
        rResult.errors # <<>> /\ rResult.saved_count = 0

\* The number of status updates issued for one diocese URL.
StatusUpdatesFor(url) ==
    Len(SelectSeq(rStatus, LAMBDA u : u.diocese_url = url))

\* The begin and end events of the log, in order.
Processed == SelectSeq(rLog, LAMBDA e : e[1] # "sleep")

\* C13: run_full_extraction processes the dioceses one after the other in
\* input order whatever fails, and returns one outcome per diocese, the
\* i-th being that of the i-th diocese; nothing leaves process_single_diocese
\* but an outcome.
C13_BatchContinues ==
    /\ rpc \in {"idle", "get_dioceses", "find", "extract", "store", "except", "return",
                 "sleep", "summary", "done"}
    /\ \A k \in 1..Len(Processed) :
          Processed[k] = <<IF k % 2 = 1 THEN "begin" ELSE "end", (k + 1) \div 2>>
    /\ \A i \in 1..Len(rResults) :
          /\ rResults[i].diocese_url = rDioceses[i].url
          /\ rResults[i].diocese_name = rDioceses[i].name
    /\ (rpc = "done" /\ rDioceses # <<>>) =>
          /\ Len(rResults) = Len(rDioceses)
          /\ Len(Processed) = 2 * Len(rDioceses)

\* A run over two dioceses has returned: the first failed with a pipeline
\* error, the second was extracted although the sink stored nothing.
C13_Witness ==
    /\ rpc = "done" /\ Len(rDioceses) = 2 /\ Len(rResults) = 2
    /\ ~rResults[1].success
    /\ rResults[1].errors = <<"Pipeline error: WebDriverException">>
    /\ rResults[2].success /\ rResults[2].saved_count = 0

\* C14: the processing of diocese i+1 starts only after a wait that follows
\* the end of diocese i; a run over n dioceses holds n-1 waits and none
\* after the last diocese.
C14_WaitBetween ==
    /\ \A k \in 1..Len(rLog) :
          /\ (rLog[k][1] = "begin" /\ rLog[k][2] > 1) =>
                 (k > 2 /\ rLog[k - 1] = <<"sleep", rLog[k][2] - 1>>
                        /\ rLog[k - 2] = <<"end", rLog[k][2] - 1>>)
          /\ rLog[k][1] = "sleep" =>
                 (k > 1 /\ rLog[k - 1] = <<"end", rLog[k][2]>>
                        /\ rLog[k][2] < Len(rDioceses))
    /\ (rpc \in {"summary", "done"} /\ rDioceses # <<>>) =>
          /\ Len(SelectSeq(rLog, LAMBDA e : e[1] = "sleep")) = Len(rDioceses) - 1
          /\ rLog[Len(rLog)] = <<"end", Len(rDioceses)>>

\* A run over two dioceses has returned after one wait, which followed a
\* failed first diocese.
C14_Witness ==
    /\ rpc = "done" /\ Len(rDioceses) = 2
    /\ ~rResults[1].success
    /\ rLog = << <<"begin", 1>>, <<"end", 1>>, <<"sleep", 1>>, <<"begin", 2>>,
                 <<"end", 2>> >>

\* C15: when process_single_diocese returns, exactly one status update has
\* been issued for the diocese's URL, with the success flag of the outcome.
C15_OneStatusUpdate ==
    rpc = "return" =>
        /\ StatusUpdatesFor(rDioceses[rI].url) = 1
        /\ \A k \in 1..Len(rStatus) :
              rStatus[k].diocese_url = rDioceses[rI].url =>
                  rStatus[k].success = rResult.success

\* C17: every row the record sink stored carries as extraction_method the
\* extraction_method of the record it was made from.
C17_Provenance ==
    rpc = "return" =>
        \A k \in 1..Len(rSink) :
            Item(rSink[k], "diocese_url") = rResult.diocese_url =>
                \E i \in 1..Len(rResult.parishes) :
                    /\ rResult.parishes[i].name = Item(rSink[k], "Name")
                    /\ rResult.parishes[i].extraction_method
                          = Item(rSink[k], "extraction_method")


\* The selector loop of the Generic strategy with the faulty candidate
\* skipped.
RECURSIVE generic_loop_Skipping(_, _, _, _)
generic_loop_Skipping(selections, i, parishes, faulty) ==
    IF i > Len(selections) THEN parishes
    ELSE LET elements == selections[i]
             first == SubSeq(elements, 1,
                             IF Len(elements) < GenericElementLimit
                             THEN Len(elements) ELSE GenericElementLimit)
             found == parishes \o CollectFrom(SelectSeq(first, LAMBDA e : e # faulty),
                                              extract_parish_from_element)
         IN IF Len(elements) = 0
            THEN generic_loop_Skipping(selections, i + 1, parishes, faulty)
            ELSE IF Len(found) > 0 THEN found
            ELSE generic_loop_Skipping(selections, i + 1, found, faulty)

\* What a strategy returns when the faulty candidate alone is skipped.
Skipping(strategy, soup, faulty) ==
    LET others(candidates) == SelectSeq(candidates, LAMBDA e : e # faulty)
    IN CASE strategy = "parish_finder" ->
              remove_duplicates(CollectFrom(others(find_all(soup, IsSiteItem)),
                                            extract_parish_from_site))
         [] strategy = "card_layout" ->
              remove_duplicates(CollectFrom(others(FirstNonEmpty(card_selectors(soup))),
                                            extract_parish_from_card))
         [] strategy = "table" ->
              remove_duplicates(CollectFrom(others(table_data_rows(soup)),
                                            extract_parish_from_row))
         [] strategy = "generic" ->
              remove_duplicates(generic_loop_Skipping(generic_selectors(soup), 1, <<>>,
                                                      faulty))

\* C12: when processing one candidate raises, no exception leaves extract
\* and the strategy returns the records of the other candidates.
C12_FaultIsolated ==
    fpc = "return" =>
        /\ ~fOutcome.raised
        /\ fOutcome.parishes = Skipping(fStrategy, fSoup, fFaulty)

\* Without a faulty candidate every strategy returns what it returns when
\* nothing is skipped.
C12_NoFault ==
    (fpc = "return" /\ fFaulty = NoTag) =>
        /\ ~fOutcome.raised
        /\ fOutcome.parishes = Skipping(fStrategy, fSoup, fFaulty)


\* C19: a parish_directory query to analyze_with_ai always ends by returning
\* a dict whose score is an integer in 0..10, and the score is the mock value
\* 7 whenever the language model is not available.
C19_ScoreInRange ==
    (apc \in {"return", "raised"} /\ aQuery = "parish_directory") =>
        /\ apc = "return"
        /\ HasKey(aResult, "score")
        /\ Item(aResult, "score") \in 0..10
        /\ ~aEnabled => Item(aResult, "score") = 7

\* With the configuration set the score is in 0..10, and 7 when the model
\* is not enabled.
C19_WhenConfigured ==
    (apc \in {"return", "raised"} /\ aQuery = "parish_directory" /\ aConfigSet) =>
        /\ apc = "return"
        /\ HasKey(aResult, "score")
        /\ Item(aResult, "score") \in 0..10
        /\ ~aEnabled => Item(aResult, "score") = 7


\* C20: for a card whose heading holds a valid parish name and whose
\* card-body block lists the city line and then a "Learn More" line, the
\* CardLayout strategy returns exactly one record, with that name and with
\* the city line as its city.
C20_CityLine ==
    (/\ lpc = "return"
     /\ validate_parish_name(lParts.name)
     /\ ~lParts.inside /\ lParts.learn_more /\ lParts.breaks) =>
        /\ Len(lParishes) = 1
        /\ lParishes[1].name = lParts.name
        /\ lParishes[1].city = lParts.city

\* The record of such a card has the heading's name and no city; the city
\* line is returned when the heading is the first line of the card-body
\* block.
C20_SecondLine ==
    (/\ lpc = "return"
     /\ validate_parish_name(lParts.name)
     /\ lParts.learn_more /\ lParts.breaks) =>
        /\ Len(lParishes) = 1
        /\ lParishes[1].name = lParts.name
        /\ lParishes[1].city = IF lParts.inside THEN lParts.city ELSE None


\* The phone numbers of the item parts as extract_phone writes them.
NormalizedPhone(text) ==
    CASE text = "216.555.1234" -> "(216) 555-1234"
      [] text = "(330) 555-9876" -> "(330) 555-9876"
      [] OTHER -> None

\* The record a finder item with a valid name stands for.
ItemRecord(parts) ==
    Parish(parts.name, parts.city, parts.address, NormalizedPhone(parts.phone),
           parts.href, parts.lat, parts.lng, 90, "parish_finder")

ValidItemName(name) == name \in {"St. Mary Parish", "St. Ann Church"}

\* C21: each li.site item is mapped on its own: an item without a name
\* element or with an invalid name gives no record, an item with a valid
\* name gives one candidate with its name, city, address, normalized phone,
\* link and coordinates, a field being absent when its element is missing;
\* the returned list is the candidates in page order, duplicates removed.
C21_ItemsMapped ==
    ipc = "return" =>
        iParishes = remove_duplicates(
                        Concat([k \in 1..Len(iParts) |->
                                   IF ValidItemName(iParts[k].name)
                                   THEN <<ItemRecord(iParts[k])>> ELSE <<>>]))

\* A nameless item with every other field, followed by a valid item: only
\* the second gives a record.
C21_Witness ==
    /\ ipc = "return" /\ Len(iParts) = 2
    /\ iParts[1].name = None /\ iParts[1].city # None /\ iParts[1].phone # None
    /\ iParts[2].name = "St. Ann Church"
    /\ Len(iParishes) = 1
    /\ iParishes[1].name = "St. Ann Church" /\ iParishes[1].phone = "(330) 555-9876"
    /\ iParishes[1].address = None /\ iParishes[1].longitude = None


\* The records of the rows k of a table whose first cell is a valid name.
RowRecords(names, from) ==
    Concat([k \in 1..Len(names) |->
               IF k >= from /\ validate_parish_name(names[k])
               THEN <<Parish(names[k], "Denver", None, None, None, None, None,
                             85, "table")>>
               ELSE <<>>])

TableConsidered(names) ==
    \E k \in 1..Len(names) : AnyTermIn(table_extract_keywords, lower(names[k]))

\* C22 as stated: the first row of a considered table never gives a record,
\* whatever the number of rows.
C22_HeaderSkipped ==
    (hpc = "return" /\ TableConsidered(hNames)) =>
        hParishes = remove_duplicates(RowRecords(hNames, 2))

\* C22 amended: the first row of a considered table gives no record when
\* the table has two rows or more; the row of a table with a single row is
\* examined like a data row.
C22_HeaderSkippedUnlessAlone ==
    (hpc = "return" /\ TableConsidered(hNames)) =>
        hParishes = remove_duplicates(
                        RowRecords(hNames, IF Len(hNames) > 1 THEN 2 ELSE 1))

\* A table whose only row starts with a valid name: the row gives a record.
C22_Witness ==
    /\ hpc = "return"
    /\ hNames = <<"St. Joseph Church">>
    /\ Len(hParishes) = 1
    /\ hParishes[1].name = "St. Joseph Church"


\* The containers of a document as (kind, heading) pairs in document order.
Containers(groups) ==
    Concat([j \in 1..Len(groups) |->
               [k \in 1..groups[j].n |->
                   [kind |-> groups[j].kind, name |-> ContainerName(groups[j], j, k)]]])

\* The order of the selectors list, by the kind of container each matches.
SelectorOrder ==
    <<"class-parish", "class-church", "class-location", "article", "entry",
      "id-parish", "content-item", "post">>

\* The elements selector s examines: its first 15 matches.
Examined(groups, s) ==
    LET matched == SelectSeq(Containers(groups), LAMBDA c : c.kind = SelectorOrder[s])
    IN SubSeq(matched, 1, IF Len(matched) < GenericElementLimit
                          THEN Len(matched) ELSE GenericElementLimit)

\* The valid headings among them.
Yield(groups, s) ==
    LET valid == SelectSeq(Examined(groups, s), LAMBDA c : c.name # "Upcoming Events")
    IN [k \in 1..Len(valid) |-> valid[k].name]

ReturnedNames == [k \in 1..Len(qParishes) |-> qParishes[k].name]

Selectors == 1..Len(SelectorOrder)

\* C23 as stated: only the first selector that matches any element is used,
\* also when its elements yield no valid record.
C23_FirstMatchOnly ==
    qpc = "return" =>
        \A s \in Selectors :
            (/\ Len(Examined(qGroups, s)) > 0
             /\ \A r \in 1..(s - 1) : Len(Examined(qGroups, r)) = 0)
            => ReturnedNames = Yield(qGroups, s)

\* C23 amended: the records returned are those of the first 15 elements of
\* the first selector, in the order of the list, whose examined elements
\* yield a valid record; the selectors before it yielded none and the
\* selectors after it are not used.
C23_FirstYieldOnly ==
    qpc = "return" =>
        /\ \A s \in Selectors :
               (/\ Len(Yield(qGroups, s)) > 0
                /\ \A r \in 1..(s - 1) : Len(Yield(qGroups, r)) = 0)
               => ReturnedNames = Yield(qGroups, s)
        /\ (\A s \in Selectors : Len(Yield(qGroups, s)) = 0) => ReturnedNames = <<>>

\* Sixteen article elements of which only the last has a valid heading,
\* then a post with a valid heading: the post's record is returned.
C23_Witness ==
    /\ qpc = "return" /\ Len(qGroups) = 2
    /\ qGroups[1] = [kind |-> "article", n |-> OverLimit, valid |-> "last"]
    /\ qGroups[2] = [kind |-> "post", n |-> 1, valid |-> "first"]
    /\ ReturnedNames = <<"St. Luke Parish 2-01">>


SelectorOf(kind) == CHOOSE s \in Selectors : SelectorOrder[s] = kind

NameSet(seq) == {seq[k] : k \in 1..Len(seq)}

\* C24 as stated: the selectors for "parish" in the class or in the id come
\* first, so a document with a valid id-"parish" element and a valid article
\* or .entry element yields the record of the id-"parish" element.
C24_IdParishFirst ==
    (/\ qpc = "return"
     /\ Len(Yield(qGroups, SelectorOf("id-parish"))) > 0
     /\ \/ Len(Yield(qGroups, SelectorOf("article"))) > 0
        \/ Len(Yield(qGroups, SelectorOf("entry"))) > 0) =>
        ReturnedNames = Yield(qGroups, SelectorOf("id-parish"))

\* C24 amended: the priority is class "parish", class "church", class
\* "location", article, .entry, id "parish", .content-item, .post: of two
\* selectors that both yield a valid record the earlier one gives the
\* result, so the article or .entry element wins over the id-"parish" one.
C24_ListPriority ==
    qpc = "return" =>
        \A a \in Selectors : \A b \in Selectors :
            (a < b /\ Len(Yield(qGroups, a)) > 0 /\ Len(Yield(qGroups, b)) > 0) =>
                /\ ReturnedNames # <<>>
                /\ NameSet(ReturnedNames) \subseteq NameSet(Yield(qGroups, a))
                /\ NameSet(ReturnedNames) \cap NameSet(Yield(qGroups, b)) = {}

\* An id-"parish" element followed by an article, both with a valid heading:
\* the article's record is returned.
C24_Witness ==
    /\ qpc = "return" /\ Len(qGroups) = 2
    /\ qGroups[1] = [kind |-> "id-parish", n |-> 1, valid |-> "first"]
    /\ qGroups[2] = [kind |-> "article", n |-> 1, valid |-> "first"]
    /\ ReturnedNames = <<"St. Luke Parish 2-01">>


\* C25: for a text line longer than 10 characters the Generic strategy
\* takes the line as an address exactly when it holds a digit and a street
\* word of the Table list, that is when _looks_like_address accepts it.
C25_SameAddressTest ==
    (wpc = "return" /\ Len(wLine) > 10) =>
        /\ (wGeneric # None) <=> (HasDigit(wLine) /\ HasWord(wLine, table_street_words))
        /\ (wGeneric # None) <=> wTable

\* What does hold: a line Generic takes as an address is one Table accepts,
\* and the two agree on the lines without ln, lane, blvd, boulevard, way,
\* circle, court or ct.
C25_GenericWithinTable ==
    (wpc = "return" /\ Len(wLine) > 10) =>
        /\ (wGeneric # None) => wTable
        /\ ~HasWord(wLine, <<"ln", "lane", "blvd", "boulevard", "way", "circle",
                              "court", "ct">>)
           => ((wGeneric # None) <=> wTable)


\* The lines of a card-body text that are not blank, as they read without
\* the surrounding spaces, and with runs of spaces written as one space.
Stripped(line) ==
    CASE line = "  Ogden " -> "Ogden"
      [] OTHER -> line

Normalized(line) ==
    CASE line = "Salt  Lake City" -> "Salt Lake City"
      [] OTHER -> line

NonEmptyLines(lines) ==
    LET kept == SelectSeq(lines, LAMBDA line : line \notin {"", "   "})
    IN [k \in 1..Len(kept) |-> Stripped(kept[k])]

LearnMoreLines == {"Learn More", "Learn More about us"}

\* C26 as stated: the city is the second non-empty line of the card-body
\* block, absent exactly when there is no card-body, there are fewer than
\* two non-empty lines, the second starts with "Learn More" or is longer
\* than 50 characters; a second line of exactly 50 characters is kept.
C26_SecondLineUpTo50 ==
    ypc = "return" =>
        LET lines == NonEmptyLines(yLines)
            absent == \/ ~yBody
                      \/ Len(lines) < 2
                      \/ lines[2] \in LearnMoreLines
                      \/ Len(lines[2]) > CityLineLimit
        IN yCity = IF absent THEN None ELSE Normalized(lines[2])

\* C26 amended: the same rule with the bound at 50: a second line of 50
\* characters or more is left out, one of 49 characters is kept.
C26_SecondLineBelow50 ==
    ypc = "return" =>
        LET lines == NonEmptyLines(yLines)
            absent == \/ ~yBody
                      \/ Len(lines) < 2
                      \/ lines[2] \in LearnMoreLines
                      \/ Len(lines[2]) >= CityLineLimit
        IN yCity = IF absent THEN None ELSE Normalized(lines[2])

\* A card-body whose second non-empty line has exactly 50 characters: no
\* city.
C26_Witness ==
    /\ ypc = "return" /\ yBody
    /\ yLines = <<"Holy Trinity Parish", "", LongLine(CityLineLimit)>>
    /\ yCity = None


\* The candidates that are scored: those among the first five whose scoring
\* does not raise.
Scored == {k \in 1..Len(eScoring) : k <= 5 /\ ~eScoring[k].raises}

ScoreOf(k) == eScoring[k].analysis[1][2]

\* C27: the URL returned is that of the earliest of the first five
\* candidates that attains the highest score, provided that score reaches
\* the threshold and is above 0; otherwise None is returned; a candidate
\* whose scoring raises is passed over.
C27_EarliestBest ==
    epc = "return" =>
        LET top == {k \in Scored : \A m \in Scored : ScoreOf(m) <= ScoreOf(k)}
            reaches == \E k \in top : ScoreOf(k) >= eThreshold /\ ScoreOf(k) > 0
        IN IF reaches
           THEN \E k \in top : /\ \A m \in top : k <= m
                                /\ eBest = Candidate(k).url
           ELSE eBest = None

\* Six candidates: the first raises, the third and the fifth score 9, the
\* sixth is beyond the limit: the third is returned.
C27_Witness ==
    /\ epc = "return" /\ eThreshold = 7
    /\ eScoring = <<ScoringRaises, ScoringReturns(7), ScoringReturns(9),
                    ScoringReturns(6), ScoringReturns(9), ScoringReturns(9)>>
    /\ eBest = Candidate(3).url


\* C28: at most one browser session is open at any time, every session a
\* method opened is quit when the method has returned or raised, and none
\* is open once process_single_diocese has returned.
C28_NoSessionLeft ==
    /\ Cardinality(bOpen) <= 1
    /\ bpc \in {"extract_setup", "store", "except", "return", "done"} => bOpen = {}

\* What does hold: the session of a driver that setup_driver returned is
\* the only one in use, and it is quit in the finally clause; the sessions
\* left open are those started by a setup_driver call that raised.
C28_ReturnedDriversQuit ==
    /\ bOpen \ bLeft = (IF bDriver = 0 THEN {} ELSE {bDriver})
    /\ bpc \in {"extract_setup", "store", "except", "return", "done"} => bDriver = 0


\* The outcomes process_single_diocese has returned so far.
ReturnedOutcomes == IF rpc = "return" THEN Append(rResults, rResult) ELSE rResults

\* The calls of save_parishes_to_database made for the k-th diocese.
SavesFor(k) == SelectSeq(rSaves, LAMBDA c : c.diocese = k)

\* C29: save_parishes_to_database is called at most once per diocese and
\* only with the records of a successful extraction (at least one record);
\* every returned outcome has 0 <= saved_count <= number of records, a
\* positive saved_count only with success, and the saved_count the call
\* returned.
C29_SavedOnlyOnSuccess ==
    /\ \A k \in 1..Len(rSaves) : rSaves[k].success /\ rSaves[k].records >= 1
    /\ \A k \in 1..Len(rDioceses) : Len(SavesFor(k)) <= 1
    /\ \A k \in 1..Len(ReturnedOutcomes) :
          LET result == ReturnedOutcomes[k]
          IN /\ 0 <= result.saved_count
             /\ result.saved_count <= Len(result.parishes)
             /\ result.saved_count > 0 => result.success
             /\ result.success = (Len(SavesFor(k)) = 1)
             /\ result.success => SavesFor(k)[1].saved_count = result.saved_count

\* Two dioceses were processed: the extraction of one failed and nothing
\* was saved, the records of the other were saved.
C29_Witness ==
    /\ Len(rResults) = 2
    /\ ~rResults[1].success /\ rResults[1].saved_count = 0 /\ SavesFor(1) = <<>>
    /\ rResults[2].success /\ rResults[2].saved_count > 0
    /\ Len(rSaves) = 1


\* The tables of a document, the ones whose text holds a keyword of the
\* classifier and the ones the Table strategy does not skip.
TablesOf(soup) == find_all(soup, LAMBDA e : e.tag = "table")

ClassifierTables(soup) ==
    SelectSeq(TablesOf(soup), LAMBDA t : AnyTermIn(table_keywords, lower(get_text(t))))

StrategyTables(soup) ==
    SelectSeq(TablesOf(soup),
              LAMBDA t : AnyTermIn(table_extract_keywords, lower(get_text(t))))

\* C30: whenever detect_site_type returns TABLE for a document, the Table
\* strategy considers at least one table of that document.
C30_TableTypeConsidered ==
    (kpc = "return" /\ kType = TABLE) => StrategyTables(kSoup) # <<>>

\* What does hold: a table the strategy considers is a table of the
\* classifier, a TABLE document has a table of the classifier, and a TABLE
\* document with no considered table has a table with "address" in it.
C30_StrategyWithinClassifier ==
    kpc = "return" =>
        /\ \A i \in 1..Len(StrategyTables(kSoup)) :
               \E j \in 1..Len(ClassifierTables(kSoup)) :
                   ClassifierTables(kSoup)[j] = StrategyTables(kSoup)[i]
        /\ kType = TABLE => ClassifierTables(kSoup) # <<>>
        /\ (kType = TABLE /\ StrategyTables(kSoup) = <<>>) =>
               \E j \in 1..Len(ClassifierTables(kSoup)) :
                   Contains(lower(get_text(ClassifierTables(kSoup)[j])), "address")

===========================================================================
